---------------------------- MODULE Spec2Model ----------------------------
(* Multi-tenant backend: the request pipeline that binds a tenant context  *)
(* (jwtMiddleware, setOrganizationContext, requireOrganization, withRls),  *)
(* the organization-membership handlers, the project-member handlers and  *)
(* the activity feed retrieval, each as a state machine over one database. *)
(*                                                                         *)
(* Identifiers travel through HTTP as strings and are compared as strings  *)
(* in JavaScript (===) but as bigint in SQL; Bigint models the cast.       *)
(* The application connects as the role that owns the tables, so a query's *)
(* result is decided by its WHERE clause; the GUCs app.user_id and         *)
(* app.organization_id a connection carries are tracked as its context.    *)
EXTENDS Integers, Sequences, FiniteSets, TLC

VARIABLES
  organizations,   \* organizations: [OrgIds -> row], subdomain "" = no row
  orgMemberships,  \* org_memberships: [Orgs \X Users -> role or "none"]
  projectMembers,  \* project_members: [Projects \X Users -> role or "none"]
  projects,        \* projects: [ProjectIds -> row], organizationId 0 = no row
  tasks,           \* tasks: [TaskIds -> row], organizationId 0 = no row
  activities,      \* activities table: rows in insertion order
  seqs,            \* BIGSERIAL sequences: last id handed out, per table
  redis,           \* Redis lists: [RoomKeys -> Seq(activity)], head first
  now,             \* the server clock, in milliseconds
  broadcasts,      \* 'new-activity' events emitted so far, oldest first
  recorded,        \* activities handed to a recording path so far, oldest first
  calls,           \* storeActivity / deleteActivity calls in flight
  parked,          \* a handler suspended at an await while another one runs
  build,           \* which ActivityService the build links: "database" or "cache"
  connectedUsers,  \* WebSocketService.connectedUsers: roomKey -> socket ids
  sockets,         \* socket.io connections: [Sockets -> [state, rooms, received]]
  pool,            \* pg pool: [Conns -> [leased, inTxn, gucUser, gucOrg]]
  req,             \* in-flight pipeline requests (Spec)
  queryLog,        \* queries run so far, with the context they ran under
  hreq             \* the request a route handler is serving (SpecOrg, ...)

otherTables == <<projects, tasks, activities, seqs>>
dbVars   == <<orgMemberships, projectMembers, projects, tasks, activities, seqs>>
wsVars   == <<connectedUsers, sockets>>
svcVars  == <<redis, now, broadcasts, recorded, calls, parked, build, wsVars,
              organizations>>
pipeVars == <<pool, req, queryLog>>
vars     == <<orgMemberships, projectMembers, projects, tasks, activities, seqs,
              redis, now, broadcasts, recorded, calls, parked, build,
              connectedUsers, sockets, organizations,
              pool, req, queryLog, hreq>>

-----------------------------------------------------------------------------
(* Bounds                                                                  *)

NumConns   == 2   \* connections of the pool
MaxQueries == 2   \* executeWithRLS calls one route handler makes
MaxProjects == 3  \* project ids the projects sequence hands out
MaxTasks    == 2  \* task ids the tasks sequence hands out
MaxOrgs     == 4  \* organization ids the organizations sequence hands out

-----------------------------------------------------------------------------
(* Identifiers                                                             *)

Users    == {1, 2, 3}
Orgs     == {1, 2}
Projects == 1..MaxProjects
TaskIds  == 1..MaxTasks
Conns    == 1..NumConns
OrgIds   == 1..MaxOrgs
Reqs     == {"r1", "r2"}

\* Decimal strings a client can put in a URL, a query string or a body.
IdStrings == {"1", "2", "3", "01"}

\* PostgreSQL's text -> bigint input conversion (leading zeros are accepted).
Bigint(s) ==
  CASE s = "1"  -> 1
    [] s = "01" -> 1
    [] s = "2"  -> 2
    [] s = "3"  -> 3
    [] s = "4"  -> 4
    [] OTHER    -> 0

\* user.id / organization.id as the driver returns a bigint column.
IdString(n) ==
  CASE n = 1 -> "1"
    [] n = 2 -> "2"
    [] n = 3 -> "3"
    [] n = 4 -> "4"
    [] OTHER -> ""

OrgRoles     == {"OWNER", "ADMIN", "USER"}
ProjectRoles == {"EDITOR", "VIEWER"}

\* A projects row; organizationId 0 stands for "no such row".
NoProject == [organizationId |-> 0, name |-> "", slug |-> ""]

\* An organizations row; subdomain "" stands for "no such row".
NoOrganization == [name |-> "", subdomain |-> ""]

\* Seed data: the organizations 1 and 2.
SeedOrganizations ==
  [o \in OrgIds |->
     CASE o = 1 -> [name |-> "o1", subdomain |-> "org1"]
       [] o = 2 -> [name |-> "o2", subdomain |-> "org2"]
       [] OTHER -> NoOrganization]

\* Seed data: project 1 belongs to organization 1, project 2 to organization 2.
SeedProjects ==
  [p \in Projects |->
     CASE p = 1 -> [organizationId |-> 1, name |-> "p1", slug |-> "p1"]
       [] p = 2 -> [organizationId |-> 2, name |-> "p2", slug |-> "p2"]
       [] OTHER -> NoProject]

\* The organization a project row belongs to (projects.organization_id).
ProjectOrg(p) == IF p \in DOMAIN projects THEN projects[p].organizationId ELSE 0

\* A tasks row; organizationId 0 stands for "no such row", assigneeId 0 for
\* NULL.
NoTask ==
  [organizationId |-> 0, projectId |-> 0, assigneeId |-> 0, status |-> "",
   title |-> "", createdBy |-> 0]

\* Seed data: organization 1 has OWNER 1, ADMIN 2, USER 3; organization 2
\* is owned by user 3.
SeedMemberships ==
  [k \in Orgs \X Users |->
     CASE k = <<1, 1>> -> "OWNER"
       [] k = <<1, 2>> -> "ADMIN"
       [] k = <<1, 3>> -> "USER"
       [] k = <<2, 3>> -> "OWNER"
       [] OTHER        -> "none"]

SeedProjectMembers ==
  [k \in Projects \X Users |->
     CASE k = <<1, 1>> -> "EDITOR"
       [] k = <<1, 3>> -> "VIEWER"
       [] k = <<2, 3>> -> "EDITOR"
       [] OTHER        -> "none"]

\* organizations.room_key of each organization.
RoomKey(o) == IF o = 1 THEN "org1" ELSE "org2"

RoomKeys == {RoomKey(o) : o \in Orgs}

\* SELECT role FROM org_memberships WHERE organization_id = o AND user_id = u
RoleOf(o, u) ==
  IF <<o, u>> \in DOMAIN orgMemberships THEN orgMemberships[<<o, u>>] ELSE "none"

-----------------------------------------------------------------------------
(* Connections and the transaction-local context                           *)

NoConn == 0

FreshConn == [leased |-> FALSE, inTxn |-> FALSE, gucUser |-> "", gucOrg |-> ""]

\* set_config(name, value, true): the value lasts until the enclosing
\* transaction ends; outside a transaction block it is gone with the statement.
SetConfigLocal(conn, name, value) ==
  IF ~conn.inTxn THEN conn
  ELSE IF name = "app.user_id" THEN [conn EXCEPT !.gucUser = value]
  ELSE [conn EXCEPT !.gucOrg = value]

StartTransaction(conn) == [conn EXCEPT !.inTxn = TRUE]

\* COMMIT / ROLLBACK end the transaction and with it every local setting.
EndTransaction(conn) == [conn EXCEPT !.inTxn = FALSE, !.gucUser = "", !.gucOrg = ""]

CommitTransaction(conn) == EndTransaction(conn)

\* A catch branch that rethrows without rolling back.
ForgottenRollback(conn) == conn

RollbackTransaction(conn) == EndTransaction(conn)

\* A pool that hands out connections already leased.
AnyConns == Conns

\* createQueryRunner().connect() leases a connection nobody holds.
FreeConns == {c \in Conns : ~pool[c].leased}

\* A query as the store sees it: who ran it, what kind, under which context.
Logged(r, kind, conn) ==
  [req |-> r, kind |-> kind, ctxUser |-> conn.gucUser, ctxOrg |-> conn.gucOrg]


-----------------------------------------------------------------------------
(* The request pipeline: jwtMiddleware -> setOrganizationContext ->        *)
(* requireOrganization -> route handler, one queryRunner per request       *)

Routes == {"list", "detail", "activities"}

IdleReq ==
  [pc |-> "idle", user |-> "", orgParam |-> "", proj |-> "", route |-> "list",
   queryRunner |-> NoConn, organizationId |-> "", status |-> 0,
   left |-> 0, threw |-> FALSE]

\* A bind that does not look the membership up.
SkippedVerification(userId, organizationId) == TRUE

\* The EXISTS query of setUserContextInDB: is there an org_memberships row
\* (joined to users) for this user and organization?
UserVerification(userId, organizationId) ==
  RoleOf(Bigint(organizationId), Bigint(userId)) # "none"

\* The access test without p.organization_id = $3.
AccessAnywhere(userId, projectId, organizationId) ==
  LET p == Bigint(projectId)
      u == Bigint(userId)
  IN  /\ p \in Projects
      /\ projects[p].organizationId # 0
      /\ \/ projectMembers[<<p, u>>] # "none"
         \/ RoleOf(projects[p].organizationId, u) \in {"OWNER", "ADMIN"}

\* The EXISTS query of hasProjectAccess.
HasProjectAccess(userId, projectId, organizationId) ==
  LET p == Bigint(projectId)
      o == Bigint(organizationId)
      u == Bigint(userId)
  IN  /\ p \in Projects
      /\ ProjectOrg(p) = o
      /\ \/ projectMembers[<<p, u>>] # "none"
         \/ RoleOf(o, u) \in {"OWNER", "ADMIN"}

\* A request arrives: a bearer token (valid for some user, or not), an
\* organizationId in the URL or query (or none) and a route.
Arrive(r) ==
  /\ req[r].pc = "idle"
  /\ \E u \in {"", "1", "3"}, o \in {"", "1", "2"}, rt \in Routes, p \in {"1", "2"} :
       /\ (rt # "detail") => p = "1"
       /\ req' = [req EXCEPT ![r] =
            [IdleReq EXCEPT !.pc = "jwt", !.user = u, !.orgParam = o,
                            !.route = rt, !.proj = p]]
  /\ UNCHANGED <<pool, queryLog, dbVars, svcVars, hreq>>

\* jwtMiddleware with a missing, expired or invalid token: 401, no connection.
JwtReject(r) ==
  /\ req[r].pc = "jwt"
  /\ req[r].user = ""
  /\ req' = [req EXCEPT ![r].pc = "done", ![r].status = 401]
  /\ UNCHANGED <<pool, queryLog, dbVars, svcVars, hreq>>

\* jwtMiddleware with a valid token: lease a connection for the request and
\* register its release for when the response has been sent.
JwtAccept(r) ==
  /\ req[r].pc = "jwt"
  /\ req[r].user # ""
  /\ \E c \in FreeConns :
       /\ pool' = [pool EXCEPT ![c].leased = TRUE]
       /\ req' = [req EXCEPT ![r].pc = "setOrg", ![r].queryRunner = c]
  /\ UNCHANGED <<queryLog, dbVars, svcVars, hreq>>

\* setOrganizationContext -> setUserContextInDB on the request's connection,
\* outside any transaction.
SetOrganizationContext(r) ==
  LET c     == req[r].queryRunner
      o     == req[r].orgParam
      conn1 == SetConfigLocal(pool[c], "app.user_id", req[r].user)
      conn2 == SetConfigLocal(conn1, "app.organization_id", o)
  IN
  /\ req[r].pc = "setOrg"
  /\ IF o = ""
     THEN /\ req' = [req EXCEPT ![r].pc = "requireOrg"]
          /\ UNCHANGED <<pool, queryLog>>
     ELSE /\ queryLog' = queryLog \cup {Logged(r, "bind", conn1)}
          /\ IF UserVerification(req[r].user, o)
             THEN /\ pool' = [pool EXCEPT ![c] = conn2]
                  /\ req' = [req EXCEPT ![r].pc = "requireOrg",
                                        ![r].organizationId = o]
             ELSE /\ pool' = [pool EXCEPT ![c] = conn1]
                  /\ req' = [req EXCEPT ![r].pc = "finish", ![r].status = 403]
  /\ UNCHANGED <<dbVars, svcVars, hreq>>

RequireOrganization(r) ==
  /\ req[r].pc = "requireOrg"
  /\ IF req[r].organizationId = ""
     THEN req' = [req EXCEPT ![r].pc = "finish", ![r].status = 400]
     ELSE req' = [req EXCEPT ![r].pc = "handler"]
  /\ UNCHANGED <<pool, queryLog, dbVars, svcVars, hreq>>

\* A handler that only calls executeWithRLS (GET /projects, the member
\* handlers, ...): MaxQueries calls in a row.
HandlerList(r) ==
  /\ req[r].pc = "handler"
  /\ req[r].route = "list"
  /\ req' = [req EXCEPT ![r].pc = "begin", ![r].left = MaxQueries]
  /\ UNCHANGED <<pool, queryLog, dbVars, svcVars, hreq>>

\* GET /:projectId and the other handlers that call hasProjectAccess first:
\* a plain query on the request's connection, then executeWithRLS.
HandlerDetail(r) ==
  LET c == req[r].queryRunner IN
  /\ req[r].pc = "handler"
  /\ req[r].route = "detail"
  /\ queryLog' = queryLog \cup {Logged(r, "access", pool[c])}
  /\ IF HasProjectAccess(req[r].user, req[r].proj, req[r].organizationId)
     THEN req' = [req EXCEPT ![r].pc = "begin", ![r].left = 1]
     ELSE req' = [req EXCEPT ![r].pc = "finish", ![r].status = 403]
  /\ UNCHANGED <<pool, dbVars, svcVars, hreq>>

\* The activity router: its queries go through AppDataSource.getRepository,
\* i.e. on whichever pooled connection is free, not on req.queryRunner.
HandlerActivities(r) ==
  /\ req[r].pc = "handler"
  /\ req[r].route = "activities"
  /\ \E c \in FreeConns :
       queryLog' = queryLog \cup {Logged(r, "repo", pool[c])}
  /\ req' = [req EXCEPT ![r].pc = "finish", ![r].status = 200]
  /\ UNCHANGED <<pool, dbVars, svcVars, hreq>>

\* withRls, statement by statement.
WithRlsBegin(r) ==
  LET c == req[r].queryRunner IN
  /\ req[r].pc = "begin"
  /\ pool' = [pool EXCEPT ![c] = StartTransaction(pool[c])]
  /\ req' = [req EXCEPT ![r].pc = "setUser"]
  /\ UNCHANGED <<queryLog, dbVars, svcVars, hreq>>

WithRlsSetUser(r) ==
  LET c == req[r].queryRunner IN
  /\ req[r].pc = "setUser"
  /\ pool' = [pool EXCEPT ![c] = SetConfigLocal(pool[c], "app.user_id", req[r].user)]
  /\ req' = [req EXCEPT ![r].pc = "setOrgCfg"]
  /\ UNCHANGED <<queryLog, dbVars, svcVars, hreq>>

WithRlsSetOrg(r) ==
  LET c == req[r].queryRunner IN
  /\ req[r].pc = "setOrgCfg"
  /\ pool' = [pool EXCEPT ![c] =
       IF req[r].organizationId # ""
       THEN SetConfigLocal(pool[c], "app.organization_id", req[r].organizationId)
       ELSE pool[c]]
  /\ req' = [req EXCEPT ![r].pc = "fn"]
  /\ UNCHANGED <<queryLog, dbVars, svcVars, hreq>>

\* fn(): the handler's query runs on the request's connection; it returns
\* or it throws (a constraint violation, a malformed statement, ...).
WithRlsQuery(r) ==
  LET c == req[r].queryRunner IN
  /\ req[r].pc = "fn"
  /\ queryLog' = queryLog \cup {Logged(r, "rls", pool[c])}
  /\ \E ok \in BOOLEAN :
       req' = [req EXCEPT ![r].pc = IF ok THEN "commit" ELSE "rollback"]
  /\ UNCHANGED <<pool, dbVars, svcVars, hreq>>

\* commitTransaction, then the handler goes on: next call, or 2xx response.
WithRlsCommit(r) ==
  LET c == req[r].queryRunner IN
  /\ req[r].pc = "commit"
  /\ pool' = [pool EXCEPT ![c] = CommitTransaction(pool[c])]
  /\ IF req[r].left > 1
     THEN req' = [req EXCEPT ![r].pc = "begin", ![r].left = @ - 1]
     ELSE req' = [req EXCEPT ![r].pc = "finish", ![r].left = 0, ![r].status = 200]
  /\ UNCHANGED <<queryLog, dbVars, svcVars, hreq>>

\* catch: rollbackTransaction and rethrow; the handler's catch answers 500.
WithRlsRollback(r) ==
  LET c == req[r].queryRunner IN
  /\ req[r].pc = "rollback"
  /\ pool' = [pool EXCEPT ![c] = RollbackTransaction(pool[c])]
  /\ req' = [req EXCEPT ![r].pc = "finish", ![r].status = 500, ![r].threw = TRUE]
  /\ UNCHANGED <<queryLog, dbVars, svcVars, hreq>>

\* res.on('finish'): the connection goes back to the pool as it is.
Finish(r) ==
  LET c == req[r].queryRunner IN
  /\ req[r].pc = "finish"
  /\ pool' = [pool EXCEPT ![c].leased = FALSE]
  /\ req' = [req EXCEPT ![r].pc = "done"]
  /\ UNCHANGED <<queryLog, dbVars, svcVars, hreq>>

\* The request a route handler is serving: its inputs, the rows it has read
\* so far, its response status, and the database as it was on arrival.
IdleHReq ==
  [pc |-> "idle", op |-> "", actor |-> "", organizationId |-> "",
   userId |-> "", projectId |-> "", role |-> "",
   currentUserRole |-> "", targetRole |-> "", status |-> 0,
   roomKey |-> "", page |-> "", limit |-> "", kind |-> "", activities |-> <<>>,
   name |-> "", slug |-> "", taskId |-> "", taskStatus |-> "", title |-> "",
   assigneeId |-> "", isAssignee |-> FALSE, isEditor |-> FALSE,
   logged |-> "", total |-> 0, pages |-> 0, subdomain |-> "",
   before |-> [om |-> SeedMemberships, pm |-> SeedProjectMembers]]

InitDb ==
  /\ orgMemberships = SeedMemberships
  /\ projectMembers = SeedProjectMembers
  /\ projects = SeedProjects
  /\ tasks = [t \in TaskIds |-> NoTask]
  /\ activities = <<>>
  /\ seqs = [projects |-> 2, tasks |-> 0, activities |-> 0]

\* No storeActivity / deleteActivity call in flight.
IdleCall == [pc |-> "idle"]

\* The socket.io connections the model follows. A connection is "new" before
\* its 'connection' event, "connected" after it and "disconnected" after its
\* 'disconnect' event; rooms are the adapter rooms it has joined and received
\* the 'new-activity' events emitted to it.
Sockets == {"s1", "s2"}

NewSocket == [state |-> "new", rooms |-> {}, received |-> <<>>]

InitWs ==
  /\ connectedUsers = [k \in {} |-> {}]
  /\ sockets = [s \in Sockets |-> NewSocket]

Callers == {"c1", "c2"}

InitSvc ==
  /\ redis = [k \in RoomKeys |-> <<>>]
  /\ now = 1
  /\ broadcasts = <<>>
  /\ recorded = <<>>
  /\ calls = [c \in Callers |-> IdleCall]
  /\ parked = IdleHReq
  /\ build = "database"
  /\ InitWs
  /\ organizations = SeedOrganizations

Init ==
  /\ InitDb
  /\ InitSvc
  /\ pool = [c \in Conns |-> FreshConn]
  /\ req = [r \in Reqs |-> IdleReq]
  /\ queryLog = {}
  /\ hreq = IdleHReq

Next ==
  \E r \in Reqs :
    \/ Arrive(r)
    \/ JwtReject(r)
    \/ JwtAccept(r)
    \/ SetOrganizationContext(r)
    \/ RequireOrganization(r)
    \/ HandlerList(r)
    \/ HandlerDetail(r)
    \/ HandlerActivities(r)
    \/ WithRlsBegin(r)
    \/ WithRlsSetUser(r)
    \/ WithRlsSetOrg(r)
    \/ WithRlsQuery(r)
    \/ WithRlsCommit(r)
    \/ WithRlsRollback(r)
    \/ Finish(r)

Spec == Init /\ [][Next]_vars

-----------------------------------------------------------------------------
(* Properties of the request pipeline (checked under Spec)                 *)

HandlerQueries(r) == {q \in queryLog : q.req = r /\ q.kind # "bind"}

InWithRls(r) == req[r].pc \in {"setUser", "setOrgCfg", "fn", "commit", "rollback"}

Clean(conn) == ~conn.inTxn /\ conn.gucUser = "" /\ conn.gucOrg = ""

\* C1: once setOrganizationContext has run for a request that names an
\* organization, the request is bound (req.organizationId is set) iff an
\* org_memberships row exists for (user, organization); with no row the
\* request is answered 403, never reaches a handler and ran no handler query.
C1_BindIffMembership ==
  \A r \in Reqs :
    (req[r].queryRunner # NoConn /\ req[r].pc # "setOrg" /\ req[r].orgParam # "") =>
      LET member == RoleOf(Bigint(req[r].orgParam), Bigint(req[r].user)) # "none" IN
      /\ (req[r].organizationId = req[r].orgParam) <=> member
      /\ ~member => /\ req[r].status = 403
                    /\ req[r].pc \in {"finish", "done"}
                    /\ HandlerQueries(r) = {}

\* A non-member was turned away with 403 while a member's request was served.
C1_Witness ==
  \E r1, r2 \in Reqs :
    /\ req[r1].pc = "done" /\ req[r1].status = 403
    /\ req[r1].orgParam # ""
    /\ RoleOf(Bigint(req[r1].orgParam), Bigint(req[r1].user)) = "none"
    /\ req[r2].pc = "done" /\ req[r2].status = 200
    /\ req[r2].organizationId = req[r2].orgParam

\* C2: every query run through executeWithRLS/withRls ran under exactly the
\* (userId, organizationId) of the request that issued it, and a request
\* inside its transaction sees its own context on its connection, whatever
\* the other request does meanwhile.
C2_OwnContextOnly ==
  /\ \A q \in queryLog :
       q.kind = "rls" => /\ q.ctxUser = req[q.req].user
                         /\ q.ctxOrg = req[q.req].organizationId
  /\ \A r \in Reqs :
       req[r].pc \in {"fn", "commit", "rollback"} =>
         /\ pool[req[r].queryRunner].gucUser = req[r].user
         /\ pool[req[r].queryRunner].gucOrg = req[r].organizationId

\* Two requests bound to different organizations are inside their
\* transactions at the same time, each having run its query.
C2_Witness ==
  /\ req["r1"].pc = "commit" /\ req["r2"].pc = "commit"
  /\ req["r1"].organizationId = "1" /\ req["r2"].organizationId = "2"
  /\ \E q1, q2 \in queryLog :
       /\ q1.req = "r1" /\ q1.kind = "rls"
       /\ q2.req = "r2" /\ q2.kind = "rls"

\* C3: every query a handler issues against tenant-scoped data (access
\* checks, repository queries, executeWithRLS queries) runs with
\* app.user_id and app.organization_id set to its request's values.
C3_EveryQueryUnderContext ==
  \A q \in queryLog :
    q.kind # "bind" => /\ q.ctxUser = req[q.req].user
                       /\ q.ctxOrg = req[q.req].organizationId

\* C4: outside withRls a request's connection carries no context and no open
\* transaction, whether fn returned or threw, and a connection in the pool
\* is never tagged nor inside a transaction.
C4_NoContextOutsideTransaction ==
  /\ \A c \in Conns : ~pool[c].leased => Clean(pool[c])
  /\ \A r \in Reqs :
       (req[r].queryRunner # NoConn /\ req[r].pc # "done" /\ ~InWithRls(r)) =>
         Clean(pool[req[r].queryRunner])

\* One request's fn threw and was rolled back, its connection is back in the
\* pool, and the other request committed and was answered 200.
C4_Witness ==
  \E r1, r2 \in Reqs :
    /\ req[r1].pc = "done" /\ req[r1].threw
    /\ ~pool[req[r1].queryRunner].leased
    /\ req[r2].pc = "done" /\ req[r2].status = 200 /\ req[r2].route = "list"

-----------------------------------------------------------------------------
(* Organization members: POST/PUT/DELETE /:organizationId/members and      *)
(* POST /:organizationId/transfer-ownership, one request after another,    *)
(* each executeWithRLS call a step                                         *)

OrgOps == {"addMember", "updateRole", "removeMember", "transfer"}

\* Values a client can send as a role.
RoleStrings == {"OWNER", "ADMIN", "USER", "MEMBER"}

Respond(status) == hreq' = [hreq EXCEPT !.pc = "done", !.status = status]

Goto(pc) == hreq' = [hreq EXCEPT !.pc = pc]

HOrg == Bigint(hreq.organizationId)

\* A member request arrives from an authenticated user. The organization is
\* the one in the URL; userId is the URL's :userId, or the body's userId /
\* newOwnerId; role is the body's role.
OrgArrive ==
  /\ hreq.pc = "idle"
  /\ \E op \in OrgOps, a \in {"1", "2", "3"}, u \in IdStrings \cup {""},
        ro \in RoleStrings \cup {""} :
       /\ (op \in {"updateRole", "removeMember"}) => u # ""
       /\ (op \in {"removeMember", "transfer"}) => ro = ""
       /\ hreq' = [IdleHReq EXCEPT !.pc = "bind", !.op = op, !.actor = a,
                                   !.organizationId = "1", !.userId = u, !.role = ro,
                                   !.before = [om |-> orgMemberships,
                                               pm |-> projectMembers]]
  /\ UNCHANGED <<dbVars, svcVars, pipeVars>>

\* setOrganizationContext and requireOrganization, as one step.
HBind ==
  /\ hreq.pc = "bind"
  /\ IF UserVerification(hreq.actor, hreq.organizationId)
     THEN Goto("handler")
     ELSE Respond(403)
  /\ UNCHANGED <<dbVars, svcVars, pipeVars>>

\* A role gate that lets every member through.
AnyoneCanManage(currentUserRole) == currentUserRole # "none"

\* ['OWNER', 'ADMIN'].includes(currentUserRole[0].role)
CanManageMembers(currentUserRole) == currentUserRole \in {"OWNER", "ADMIN"}

\* A handler without the ADMIN-against-OWNER check.
NeverAdminOnOwner(currentUserRole, targetRole) == FALSE

\* currentUserRole[0].role === 'ADMIN' && targetRole === 'OWNER'
AdminOnOwner(currentUserRole, targetRole) ==
  currentUserRole = "ADMIN" /\ targetRole = "OWNER"

\* ---- PUT /:organizationId/members/:userId ----

UpdateRoleReadActor ==
  LET cur == RoleOf(HOrg, Bigint(hreq.actor)) IN
  /\ hreq.pc = "handler" /\ hreq.op = "updateRole"
  /\ IF hreq.role \notin {"OWNER", "ADMIN", "USER"} THEN Respond(400)
     ELSE IF ~CanManageMembers(cur) THEN Respond(403)
     ELSE IF hreq.actor = hreq.userId THEN Respond(403)
     ELSE IF cur = "ADMIN" /\ hreq.role = "OWNER" THEN Respond(403)
     ELSE hreq' = [hreq EXCEPT !.currentUserRole = cur,
                     !.pc = IF cur = "ADMIN" THEN "readTarget" ELSE "write"]
  /\ UNCHANGED <<dbVars, svcVars, pipeVars>>

UpdateRoleReadTarget ==
  LET tgt == RoleOf(HOrg, Bigint(hreq.userId)) IN
  /\ hreq.pc = "readTarget" /\ hreq.op = "updateRole"
  /\ IF AdminOnOwner(hreq.currentUserRole, tgt) THEN Respond(403)
     ELSE hreq' = [hreq EXCEPT !.targetRole = tgt, !.pc = "write"]
  /\ UNCHANGED <<dbVars, svcVars, pipeVars>>

\* UPDATE org_memberships SET role = $1 WHERE organization_id = $2 AND user_id = $3
UpdateRoleWrite ==
  LET k == <<HOrg, Bigint(hreq.userId)>> IN
  /\ hreq.pc = "write" /\ hreq.op = "updateRole"
  /\ orgMemberships' =
       IF k \in DOMAIN orgMemberships /\ orgMemberships[k] # "none"
       THEN [orgMemberships EXCEPT ![k] = hreq.role]
       ELSE orgMemberships
  /\ Respond(200)
  /\ UNCHANGED <<projectMembers, otherTables, svcVars, pipeVars>>

\* ---- DELETE /:organizationId/members/:userId ----

RemoveMemberReadActor ==
  LET cur == RoleOf(HOrg, Bigint(hreq.actor)) IN
  /\ hreq.pc = "handler" /\ hreq.op = "removeMember"
  /\ IF ~CanManageMembers(cur) THEN Respond(403)
     ELSE hreq' = [hreq EXCEPT !.currentUserRole = cur, !.pc = "readTarget"]
  /\ UNCHANGED <<dbVars, svcVars, pipeVars>>

RemoveMemberReadTarget ==
  LET tgt == RoleOf(HOrg, Bigint(hreq.userId)) IN
  /\ hreq.pc = "readTarget" /\ hreq.op = "removeMember"
  /\ IF tgt = "none" THEN Respond(404)
     ELSE IF AdminOnOwner(hreq.currentUserRole, tgt) THEN Respond(403)
     ELSE IF hreq.actor = hreq.userId /\ tgt = "OWNER" THEN Respond(403)
     ELSE hreq' = [hreq EXCEPT !.targetRole = tgt, !.pc = "write"]
  /\ UNCHANGED <<dbVars, svcVars, pipeVars>>

\* DELETE FROM org_memberships WHERE organization_id = $1 AND user_id = $2;
\* project_members rows of that member go with it (ON DELETE CASCADE). The
\* foreign key of tasks (organization_id, assignee_id) has no ON DELETE
\* action: a member who is the assignee of a task cannot be deleted and the
\* handler answers 500.
RemoveMemberWrite ==
  LET o == HOrg
      u == Bigint(hreq.userId)
      referenced == \E t \in TaskIds :
                      tasks[t].organizationId = o /\ tasks[t].assigneeId = u /\ u # 0
  IN
  /\ hreq.pc = "write" /\ hreq.op = "removeMember"
  /\ IF referenced
     THEN /\ UNCHANGED <<orgMemberships, projectMembers>>
          /\ Respond(500)
     ELSE /\ orgMemberships' =
               IF <<o, u>> \in DOMAIN orgMemberships
               THEN [orgMemberships EXCEPT ![<<o, u>>] = "none"]
               ELSE orgMemberships
          /\ projectMembers' =
               [k \in DOMAIN projectMembers |->
                  IF ProjectOrg(k[1]) = o /\ k[2] = u THEN "none" ELSE projectMembers[k]]
          /\ Respond(200)
  /\ UNCHANGED <<otherTables, svcVars, pipeVars>>

\* ---- POST /:organizationId/members ----

AddMemberReadActor ==
  LET cur == RoleOf(HOrg, Bigint(hreq.actor)) IN
  /\ hreq.pc = "handler" /\ hreq.op = "addMember"
  /\ IF hreq.userId = "" THEN Respond(400)
     ELSE IF ~CanManageMembers(cur) THEN Respond(403)
     ELSE hreq' = [hreq EXCEPT !.currentUserRole = cur, !.pc = "checkUser"]
  /\ UNCHANGED <<dbVars, svcVars, pipeVars>>

\* SELECT id FROM users WHERE id = $1
AddMemberCheckUser ==
  /\ hreq.pc = "checkUser" /\ hreq.op = "addMember"
  /\ IF Bigint(hreq.userId) \notin Users THEN Respond(404) ELSE Goto("checkExisting")
  /\ UNCHANGED <<dbVars, svcVars, pipeVars>>

AddMemberCheckExisting ==
  LET tgt == RoleOf(HOrg, Bigint(hreq.userId)) IN
  /\ hreq.pc = "checkExisting" /\ hreq.op = "addMember"
  /\ IF tgt # "none" THEN Respond(409) ELSE Goto("write")
  /\ UNCHANGED <<dbVars, svcVars, pipeVars>>

\* INSERT INTO org_memberships (organization_id, user_id, role): the body's
\* role as sent ('USER' when absent); a value outside the org_role enum makes
\* the statement fail, withRls rolls back and the handler answers 500.
AddMemberWrite ==
  LET k    == <<HOrg, Bigint(hreq.userId)>>
      role == IF hreq.role = "" THEN "USER" ELSE hreq.role
  IN
  /\ hreq.pc = "write" /\ hreq.op = "addMember"
  /\ IF role \in OrgRoles
     THEN /\ orgMemberships' = [orgMemberships EXCEPT ![k] = role]
          /\ Respond(201)
     ELSE /\ UNCHANGED orgMemberships
          /\ Respond(500)
  /\ UNCHANGED <<projectMembers, otherTables, svcVars, pipeVars>>

\* ---- POST /:organizationId/transfer-ownership ----

TransferReadActor ==
  LET cur == RoleOf(HOrg, Bigint(hreq.actor)) IN
  /\ hreq.pc = "handler" /\ hreq.op = "transfer"
  /\ IF hreq.userId = "" THEN Respond(400)
     ELSE IF cur # "OWNER" THEN Respond(403)
     ELSE hreq' = [hreq EXCEPT !.currentUserRole = cur, !.pc = "readTarget"]
  /\ UNCHANGED <<dbVars, svcVars, pipeVars>>

TransferReadTarget ==
  LET tgt == RoleOf(HOrg, Bigint(hreq.userId)) IN
  /\ hreq.pc = "readTarget" /\ hreq.op = "transfer"
  /\ IF tgt = "none" THEN Respond(404)
     ELSE hreq' = [hreq EXCEPT !.targetRole = tgt, !.pc = "write"]
  /\ UNCHANGED <<dbVars, svcVars, pipeVars>>

\* The transfer is sent as ONE parameterised query holding four commands
\* ('BEGIN; UPDATE ...; UPDATE ...; COMMIT;' with $1..$3). A query with bind
\* parameters goes through the extended protocol, where PostgreSQL refuses a
\* string of several commands ("cannot insert multiple commands into a
\* prepared statement"): nothing runs, withRls rolls back and rethrows, and
\* the handler's catch answers 500.
TransferWrite ==
  /\ hreq.pc = "write" /\ hreq.op = "transfer"
  /\ Respond(500)
  /\ UNCHANGED <<dbVars, svcVars, pipeVars>>

\* The response has been sent; the next request can be served.
HFinish ==
  /\ hreq.pc = "done"
  /\ hreq' = IdleHReq
  /\ UNCHANGED <<dbVars, svcVars, pipeVars>>

InitOrg ==
  /\ InitDb
  /\ InitSvc
  /\ pool = [c \in Conns |-> FreshConn]
  /\ req = [r \in Reqs |-> IdleReq]
  /\ queryLog = {}
  /\ hreq = IdleHReq

NextOrg ==
  \/ OrgArrive
  \/ HBind
  \/ UpdateRoleReadActor
  \/ UpdateRoleReadTarget
  \/ UpdateRoleWrite
  \/ RemoveMemberReadActor
  \/ RemoveMemberReadTarget
  \/ RemoveMemberWrite
  \/ AddMemberReadActor
  \/ AddMemberCheckUser
  \/ AddMemberCheckExisting
  \/ AddMemberWrite
  \/ TransferReadActor
  \/ TransferReadTarget
  \/ TransferWrite
  \/ HFinish

SpecOrg == InitOrg /\ [][NextOrg]_vars

\* ---- Properties of the member handlers ----

Owners(om, o) == {u \in Users : om[<<o, u>>] = "OWNER"}

HActor == Bigint(hreq.actor)

HTarget == Bigint(hreq.userId)

HDone(op) == hreq.pc = "done" /\ hreq.op = op

\* C7: every organization has exactly one OWNER membership whenever no member
\* request is half-way through.
C7_ExactlyOneOwner ==
  hreq.pc \in {"idle", "done"} =>
    \A o \in Orgs : Cardinality(Owners(orgMemberships, o)) = 1

\* C8: an ownership transfer is one atomic transition: no state in between is
\* visible, a transfer asked by the OWNER for a current member answers 200
\* with the old OWNER now ADMIN and the target now OWNER, and a transfer
\* that fails leaves every role as it was.
C8_TransferIsAtomicSwap ==
  hreq.op = "transfer" =>
    /\ hreq.pc # "done" => orgMemberships = hreq.before.om
    /\ (hreq.pc = "done" /\ hreq.status # 200) => orgMemberships = hreq.before.om
    /\ ( /\ hreq.pc = "done"
         /\ hreq.before.om[<<HOrg, HActor>>] = "OWNER"
         /\ HTarget \in Users /\ HTarget # HActor
         /\ hreq.before.om[<<HOrg, HTarget>>] # "none" ) =>
           /\ hreq.status = 200
           /\ orgMemberships =
                [hreq.before.om EXCEPT ![<<HOrg, HActor>>] = "ADMIN",
                                       ![<<HOrg, HTarget>>] = "OWNER"]

\* C9: a role change or removal asked by an ADMIN never changes who holds
\* OWNER, and is answered 403 with no row changed when it targets an OWNER
\* or asks for the role OWNER; asked by an OWNER for another member it is
\* carried out.
C9_AdminNeverTouchesOwner ==
  \A op \in {"updateRole", "removeMember"} :
    HDone(op) =>
      LET actorWas  == hreq.before.om[<<HOrg, HActor>>]
          targetWas == IF HTarget \in Users THEN hreq.before.om[<<HOrg, HTarget>>]
                       ELSE "none"
          wellFormed == op = "updateRole" => hreq.role \in OrgRoles
      IN
      /\ actorWas = "ADMIN" =>
           /\ Owners(orgMemberships, HOrg) = Owners(hreq.before.om, HOrg)
           /\ (wellFormed /\ (targetWas = "OWNER" \/ hreq.role = "OWNER")) =>
                /\ hreq.status = 403
                /\ orgMemberships = hreq.before.om
      /\ (actorWas = "OWNER" /\ wellFormed /\ targetWas # "none" /\ HTarget # HActor) =>
           /\ hreq.status = 200
           /\ orgMemberships[<<HOrg, HTarget>>] =
                IF op = "updateRole" THEN hreq.role ELSE "none"

\* C9 witness: an ADMIN's request against the OWNER has been answered, and so
\* has an OWNER's request against another member.
C9_Witness ==
  /\ hreq.pc = "done" /\ hreq.op \in {"updateRole", "removeMember"}
  /\ hreq.before.om[<<HOrg, HActor>>] = "ADMIN"
  /\ HTarget \in Users /\ hreq.before.om[<<HOrg, HTarget>>] = "OWNER"
  /\ hreq.status = 403

\* C10: no user changes their own role through the role-update request, and
\* an OWNER's request to remove their own membership is answered 403 and
\* leaves the membership in place.
C10_NoSelfChange ==
  /\ (HDone("updateRole") /\ HTarget = HActor) =>
       orgMemberships[<<HOrg, HActor>>] = hreq.before.om[<<HOrg, HActor>>]
  /\ (HDone("removeMember") /\ HTarget = HActor
        /\ hreq.before.om[<<HOrg, HActor>>] = "OWNER") =>
       /\ hreq.status = 403
       /\ orgMemberships[<<HOrg, HActor>>] = "OWNER"

-----------------------------------------------------------------------------
(* Project members: PUT and DELETE                                         *)
(* /api/organizations/:organizationId/projects/:projectId/members/:userId  *)

ProjOps == {"updateProjectMember", "removeProjectMember"}

\* A project-member request arrives. req.organizationId is the organization
\* of the URL; the project id and the user id are the URL's too.
ProjArrive ==
  /\ hreq.pc = "idle"
  /\ \E op \in ProjOps, a \in {"1", "2", "3"}, o \in {"1", "2"},
        p \in {"1", "2"}, u \in {"1", "2", "3"},
        ro \in {"EDITOR", "VIEWER", "OWNER", ""} :
       /\ op = "removeProjectMember" => ro = ""
       /\ hreq' = [IdleHReq EXCEPT !.pc = "bind", !.op = op, !.actor = a,
                                   !.organizationId = o, !.projectId = p,
                                   !.userId = u, !.role = ro,
                                   !.before = [om |-> orgMemberships,
                                               pm |-> projectMembers]]
  /\ UNCHANGED <<dbVars, svcVars, pipeVars>>

UpdateProjectMemberReadActor ==
  LET cur == RoleOf(HOrg, Bigint(hreq.actor)) IN
  /\ hreq.pc = "handler" /\ hreq.op = "updateProjectMember"
  /\ IF hreq.role \notin {"EDITOR", "VIEWER"} THEN Respond(400)
     ELSE IF ~CanManageMembers(cur) THEN Respond(403)
     ELSE hreq' = [hreq EXCEPT !.currentUserRole = cur, !.pc = "write"]
  /\ UNCHANGED <<dbVars, svcVars, pipeVars>>

\* UPDATE project_members SET role = $1 WHERE project_id = $2 AND user_id = $3
UpdateProjectMemberWrite ==
  LET k == <<Bigint(hreq.projectId), Bigint(hreq.userId)>> IN
  /\ hreq.pc = "write" /\ hreq.op = "updateProjectMember"
  /\ projectMembers' =
       IF k \in DOMAIN projectMembers /\ projectMembers[k] # "none"
       THEN [projectMembers EXCEPT ![k] = hreq.role]
       ELSE projectMembers
  /\ Respond(200)
  /\ UNCHANGED <<orgMemberships, otherTables, svcVars, pipeVars>>

RemoveProjectMemberReadActor ==
  LET cur == RoleOf(HOrg, Bigint(hreq.actor)) IN
  /\ hreq.pc = "handler" /\ hreq.op = "removeProjectMember"
  /\ IF ~CanManageMembers(cur) THEN Respond(403)
     ELSE hreq' = [hreq EXCEPT !.currentUserRole = cur, !.pc = "write"]
  /\ UNCHANGED <<dbVars, svcVars, pipeVars>>

\* DELETE FROM project_members WHERE project_id = $1 AND user_id = $2
RemoveProjectMemberWrite ==
  LET k == <<Bigint(hreq.projectId), Bigint(hreq.userId)>> IN
  /\ hreq.pc = "write" /\ hreq.op = "removeProjectMember"
  /\ projectMembers' =
       IF k \in DOMAIN projectMembers
       THEN [projectMembers EXCEPT ![k] = "none"]
       ELSE projectMembers
  /\ Respond(200)
  /\ UNCHANGED <<orgMemberships, otherTables, svcVars, pipeVars>>

NextProj ==
  \/ ProjArrive
  \/ HBind
  \/ UpdateProjectMemberReadActor
  \/ UpdateProjectMemberWrite
  \/ RemoveProjectMemberReadActor
  \/ RemoveProjectMemberWrite
  \/ HFinish

SpecProj == InitOrg /\ [][NextProj]_vars

\* C6: a project-member update or removal bound to organization O leaves
\* every project_members row of every other organization as it was.
C6_OnlyOwnOrganizationRows ==
  (hreq.pc = "done" /\ hreq.op \in ProjOps) =>
    \A k \in DOMAIN projectMembers :
      ProjectOrg(k[1]) # HOrg => projectMembers[k] = hreq.before.pm[k]

-----------------------------------------------------------------------------
(* Activity feed: ActivityService.logActivity -> storeActivity, and        *)
(* GET /api/organizations/:organizationId/activities -> getActivities      *)

MaxStored == 2   \* activities logged in a run
MaxClock  == 2   \* last value of the clock

\* RedisActivityService.storeActivity: const maxActivities = 20
maxActivities == 20

ActivityKind == {"WARN", "ALERT", "NOTIFY", "ANNOUNCE", "SHOW"}

\* Query-string numbers a client sends, and Number(...) of them; an absent
\* parameter takes the handler's default.
NumberStrings == {"", "2"}

Number(s, default) == IF s = "" THEN default ELSE Bigint(s)

Min(a, b) == IF a < b THEN a ELSE b

\* A slice that takes the entry at endIndex too.
SliceInclusive(list, startIndex, endIndex) ==
  SubSeq(list, startIndex + 1, Min(endIndex + 1, Len(list)))

\* Array.prototype.slice(startIndex, endIndex), indexes from 0.
Slice(list, startIndex, endIndex) ==
  SubSeq(list, startIndex + 1, Min(endIndex, Len(list)))

\* storeActivity(roomKey, activity): at capacity rPop the oldest, then lPush.
\* The capacity test with > in place of >=.
OverCapacity(currentLength) == currentLength > maxActivities

\* if (currentLength >= maxActivities)
AtCapacity(currentLength) == currentLength >= maxActivities

StoreActivity(list, activity) ==
  IF AtCapacity(Len(list))
  THEN <<activity>> \o SubSeq(list, 1, Len(list) - 1)
  ELSE <<activity>> \o list

\* getActivities(roomKey, page, limit, kind).activities
\* The list of the room, filtered by kind when kind is an ActivityKind.
Filtered(roomKey, kind) ==
  LET all      == IF roomKey \in DOMAIN redis THEN redis[roomKey] ELSE <<>>
      matches(a) == a.kind = kind
  IN IF kind # "" /\ kind \in ActivityKind THEN SelectSeq(all, matches) ELSE all

GetActivities(roomKey, page, limit, kind) ==
  LET filtered == Filtered(roomKey, kind)
      startIndex == (page - 1) * limit
  IN Slice(filtered, startIndex, startIndex + limit)

\* total of getActivities: activities.length after the filter.
Total(roomKey, kind) == Len(Filtered(roomKey, kind))

\* Math.ceil(total / limit) for a positive limit. For limit = 0 JavaScript
\* yields Infinity or NaN, which JSON.stringify writes as null: 0 here.
Pages(total, limit) == IF limit > 0 THEN (total + limit - 1) \div limit ELSE 0

Stored == Len(redis["org1"]) + Len(redis["org2"])

\* ActivityService.logActivity(organizationId, actorId, kind, message,
\* objectType, objectId). Two classes of that name exist: the one of
\* part_008 saves the activity in the activities table, the one of
\* websocket.service.ts stores it in the Redis list of the organization's
\* room_key with id = Date.now().toString(). Both then broadcast it to the
\* room. The variable build says which of them the handlers import.
NewActivity(o, actorId, kind, message, objectType, objectId) ==
  [id |-> IF build = "database" THEN IdString(seqs.activities + 1) ELSE IdString(now),
   organizationId |-> IdString(o), actorId |-> IdString(actorId),
   kind |-> kind, message |-> message, objectType |-> objectType,
   objectId |-> objectId]

\* activityRepository.save(activity) of the one class,
\* redisActivityService.storeActivity(roomKey, activity) of the other.
SaveActivity(saved) ==
  /\ IF build = "database"
     THEN /\ activities' = Append(activities, saved)
          /\ seqs' = [seqs EXCEPT !.activities = @ + 1]
          /\ UNCHANGED redis
     ELSE /\ redis' = [redis EXCEPT ![RoomKey(Bigint(saved.organizationId))] =
                                      StoreActivity(@, saved)]
          /\ UNCHANGED <<activities, seqs>>
  /\ recorded' = Append(recorded, saved)

RecordActivity(o, actorId, kind, message, objectType, objectId) ==
  LET saved == NewActivity(o, actorId, kind, message, objectType, objectId) IN
  /\ SaveActivity(saved)
  /\ broadcasts' = Append(broadcasts, [roomKey |-> RoomKey(o), activity |-> saved])

\* logActivity called by a mutating handler that serves an OWNER of the
\* organization.
LogActivity ==
  /\ Stored < MaxStored /\ Len(recorded) < MaxStored
  /\ \E o \in Orgs, kind \in {"NOTIFY", "SHOW"} :
       \E actorId \in {u \in Users : RoleOf(o, u) = "OWNER"} :
         RecordActivity(o, actorId, kind, "created", "project", "1")
  /\ UNCHANGED <<now, calls, parked, build, wsVars, organizations, orgMemberships, projectMembers,
                 projects, tasks, pipeVars, hreq>>

Tick ==
  /\ now < MaxClock
  /\ now' = now + 1
  /\ UNCHANGED <<redis, broadcasts, recorded, calls, parked, build, wsVars, organizations, dbVars, pipeVars, hreq>>

\* A feed request arrives with its query parameters.
ActArrive ==
  /\ hreq.pc = "idle"
  /\ \E a \in {"1", "3"}, o \in {"1", "2"}, rk \in RoomKeys \cup {""},
        pg \in NumberStrings, lim \in NumberStrings, kind \in {"", "SHOW"} :
       hreq' = [IdleHReq EXCEPT !.pc = "bind", !.op = "getActivities", !.actor = a,
                                !.organizationId = o, !.roomKey = rk,
                                !.page = pg, !.limit = lim, !.kind = kind]
  /\ UNCHANGED <<dbVars, svcVars, pipeVars>>

\* The GET handler. The activity router is created without mergeParams, so
\* req.params.organizationId is undefined inside it and
\* findOne({ where: { id: undefined } }) yields an organizations row the
\* request does not choose. The list read is the one named by the roomKey
\* query parameter when there is one, else that row's roomKey.
GetActivitiesHandler ==
  /\ hreq.pc = "handler" /\ hreq.op = "getActivities"
  /\ \E organization \in Orgs :
       LET targetRoomKey == IF hreq.roomKey # "" THEN hreq.roomKey
                            ELSE RoomKey(organization)
       IN hreq' = [hreq EXCEPT
                     !.pc = "done", !.status = 200,
                     !.activities = GetActivities(targetRoomKey,
                                                  Number(hreq.page, 1),
                                                  Number(hreq.limit, 20),
                                                  hreq.kind),
                     !.total = Total(targetRoomKey, hreq.kind),
                     !.pages = Pages(Total(targetRoomKey, hreq.kind),
                                     Number(hreq.limit, 20))]
  /\ UNCHANGED <<dbVars, svcVars, pipeVars>>

NextAct ==
  \/ LogActivity
  \/ Tick
  \/ ActArrive
  \/ HBind
  \/ GetActivitiesHandler
  \/ HFinish

\* Either ActivityService may be the one the build links.
InitAct ==
  /\ InitDb
  /\ redis = [k \in RoomKeys |-> <<>>]
  /\ now = 1
  /\ broadcasts = <<>>
  /\ recorded = <<>>
  /\ calls = [c \in Callers |-> IdleCall]
  /\ parked = IdleHReq
  /\ build \in {"database", "cache"}
  /\ InitWs
  /\ organizations = SeedOrganizations
  /\ pool = [c \in Conns |-> FreshConn]
  /\ req = [r \in Reqs |-> IdleReq]
  /\ queryLog = {}
  /\ hreq = IdleHReq

SpecAct == InitAct /\ [][NextAct]_vars

\* C5: the activities a feed request bound to organization O is answered
\* with all carry organizationId O, whatever page, limit, kind and roomKey
\* it was sent with.
C5_OnlyOwnOrganizationActivities ==
  (hreq.pc = "done" /\ hreq.op = "getActivities" /\ hreq.status = 200) =>
    \A i \in 1..Len(hreq.activities) :
      hreq.activities[i].organizationId = hreq.organizationId

-----------------------------------------------------------------------------
(* Managing members: the organization-member routes together with          *)
(* POST/PUT/DELETE /:projectId/members of the project router               *)

\* The stored state as a request finds it on arrival.
Snapshot ==
  [om |-> orgMemberships, pm |-> projectMembers, projects |-> projects,
   tasks |-> tasks, activities |-> activities, redis |-> redis,
   broadcasts |-> broadcasts]

\* ---- POST /:projectId/members ----

AddProjectMemberReadActor ==
  LET cur  == RoleOf(HOrg, Bigint(hreq.actor))
      role == IF hreq.role = "" THEN "VIEWER" ELSE hreq.role
  IN
  /\ hreq.pc = "handler" /\ hreq.op = "addProjectMember"
  /\ IF hreq.userId = "" \/ role \notin {"EDITOR", "VIEWER"} THEN Respond(400)
     ELSE IF ~CanManageMembers(cur) THEN Respond(403)
     ELSE hreq' = [hreq EXCEPT !.currentUserRole = cur, !.pc = "checkUser"]
  /\ UNCHANGED <<dbVars, svcVars, pipeVars>>

\* SELECT user_id FROM org_memberships WHERE organization_id = $1 AND user_id = $2
AddProjectMemberCheckOrgMember ==
  /\ hreq.pc = "checkUser" /\ hreq.op = "addProjectMember"
  /\ IF RoleOf(HOrg, Bigint(hreq.userId)) = "none" THEN Respond(404)
     ELSE Goto("checkExisting")
  /\ UNCHANGED <<dbVars, svcVars, pipeVars>>

\* SELECT user_id FROM project_members WHERE project_id = $1 AND user_id = $2
AddProjectMemberCheckExisting ==
  LET k == <<Bigint(hreq.projectId), Bigint(hreq.userId)>> IN
  /\ hreq.pc = "checkExisting" /\ hreq.op = "addProjectMember"
  /\ IF k \in DOMAIN projectMembers /\ projectMembers[k] # "none" THEN Respond(409)
     ELSE Goto("write")
  /\ UNCHANGED <<dbVars, svcVars, pipeVars>>

\* project_members without its foreign key to org_memberships.
OnlyProjectKeyHolds(o, p, u) == p \in Projects /\ ProjectOrg(p) = o

\* The foreign keys of project_members: (organization_id, project_id) names
\* a projects row and (organization_id, user_id) an org_memberships row.
ProjectMemberKeysHold(o, p, u) ==
  /\ p \in Projects /\ ProjectOrg(p) = o
  /\ RoleOf(o, u) # "none"

\* INSERT INTO project_members (organization_id, project_id, user_id, role);
\* a foreign-key or primary-key violation makes withRls roll back and the
\* handler answer 500.
AddProjectMemberWrite ==
  LET p == Bigint(hreq.projectId)
      u == Bigint(hreq.userId)
      role == IF hreq.role = "" THEN "VIEWER" ELSE hreq.role
  IN
  /\ hreq.pc = "write" /\ hreq.op = "addProjectMember"
  /\ IF ProjectMemberKeysHold(HOrg, p, u) /\ projectMembers[<<p, u>>] = "none"
     THEN /\ projectMembers' = [projectMembers EXCEPT ![<<p, u>>] = role]
          /\ Respond(201)
     ELSE /\ UNCHANGED projectMembers
          /\ Respond(500)
  /\ UNCHANGED <<orgMemberships, otherTables, svcVars, pipeVars>>

OrgMemberOps == {"addMember", "updateRole", "removeMember"}

ProjectMemberOps == {"addProjectMember", "updateProjectMember", "removeProjectMember"}

\* A member-management request for organization 1 and its project 1.
MemberArrive ==
  /\ hreq.pc = "idle"
  /\ \E op \in OrgMemberOps \cup ProjectMemberOps, a \in {"1", "2", "3"},
        u \in {"1", "2", "3"}, ro \in {"ADMIN", "USER", "EDITOR", "VIEWER", ""} :
       /\ (op \in {"removeMember", "removeProjectMember"}) => ro = ""
       /\ (op \in {"addMember", "updateRole"}) => ro \notin {"EDITOR"}
       /\ (op \in {"addProjectMember", "updateProjectMember"}) => ro \notin {"ADMIN"}
       /\ hreq' = [IdleHReq EXCEPT !.pc = "bind", !.op = op, !.actor = a,
                                   !.organizationId = "1", !.projectId = "1",
                                   !.userId = u, !.role = ro,
                                   !.before = Snapshot]
  /\ UNCHANGED <<dbVars, svcVars, pipeVars>>

NextMembers ==
  \/ MemberArrive
  \/ HBind
  \/ AddMemberReadActor
  \/ AddMemberCheckUser
  \/ AddMemberCheckExisting
  \/ AddMemberWrite
  \/ UpdateRoleReadActor
  \/ UpdateRoleReadTarget
  \/ UpdateRoleWrite
  \/ RemoveMemberReadActor
  \/ RemoveMemberReadTarget
  \/ RemoveMemberWrite
  \/ AddProjectMemberReadActor
  \/ AddProjectMemberCheckOrgMember
  \/ AddProjectMemberCheckExisting
  \/ AddProjectMemberWrite
  \/ UpdateProjectMemberReadActor
  \/ UpdateProjectMemberWrite
  \/ RemoveProjectMemberReadActor
  \/ RemoveProjectMemberWrite
  \/ HFinish

SpecMembers == InitOrg /\ [][NextMembers]_vars

\* The request passes the handler's validation of its body.
WellFormed ==
  CASE hreq.op = "addMember"           -> hreq.userId # ""
    [] hreq.op = "updateRole"          -> hreq.role \in OrgRoles
    [] hreq.op = "addProjectMember"    -> hreq.userId # "" /\ hreq.role \in ProjectRoles \cup {""}
    [] hreq.op = "updateProjectMember" -> hreq.role \in ProjectRoles
    [] OTHER                           -> TRUE

\* C11: an add, update or removal of an organization membership or of a
\* project membership asked by an actor whose organization role is neither
\* OWNER nor ADMIN is rejected (403 once its body is valid) and changes no
\* row; asked by an OWNER or ADMIN it is answered 403 only under the rules
\* that protect an OWNER's membership and one's own role.
C11_ManageIffOwnerOrAdmin ==
  (hreq.pc = "done" /\ hreq.op \in OrgMemberOps \cup ProjectMemberOps) =>
    LET actorWas  == hreq.before.om[<<HOrg, HActor>>]
        targetWas == IF HTarget \in Users THEN hreq.before.om[<<HOrg, HTarget>>]
                     ELSE "none"
    IN
    /\ actorWas \notin {"OWNER", "ADMIN"} =>
         /\ hreq.status \in {400, 403}
         /\ WellFormed => hreq.status = 403
         /\ orgMemberships = hreq.before.om
         /\ projectMembers = hreq.before.pm
    /\ (actorWas \in {"OWNER", "ADMIN"} /\ hreq.status = 403) =>
         /\ hreq.op \in {"updateRole", "removeMember"}
         /\ \/ hreq.actor = hreq.userId
            \/ actorWas = "ADMIN" /\ (targetWas = "OWNER" \/ hreq.role = "OWNER")

\* A USER's well-formed member-management request has been answered 403.
C11_Witness ==
  /\ hreq.pc = "done" /\ hreq.op \in OrgMemberOps \cup ProjectMemberOps
  /\ hreq.before.om[<<HOrg, HActor>>] = "USER"
  /\ WellFormed
  /\ hreq.status = 403


\* ---------------------------------------------------------------------
\* Project handlers (project.controller.ts): create, update, delete.
\* Each executeWithRLS call is one transaction of its own, so a handler
\* is a sequence of steps, one per awaited statement.
\* ---------------------------------------------------------------------

\* Activities recorded in one behaviour.
MaxRecorded == 2

\* Project update with the project EDITOR left as the only one allowed.
EditorsOnly(project_role, org_role) == project_role = "EDITOR"

\* const canEdit = project_role === 'EDITOR' || ['OWNER', 'ADMIN'].includes(org_role)
CanEdit(project_role, org_role) ==
  project_role = "EDITOR" \/ org_role \in {"OWNER", "ADMIN"}

\* pm.role of the LEFT JOIN project_members ON p.id = pm.project_id AND
\* pm.user_id = u ("none" for NULL).
ProjectRoleOf(p, u) ==
  IF <<p, u>> \in DOMAIN projectMembers THEN projectMembers[<<p, u>>] ELSE "none"

\* SELECT id FROM projects WHERE organization_id = o AND slug = s AND id != except
SlugTaken(o, s, except) ==
  \E p \in Projects : p # except /\ projects[p].organizationId = o /\ projects[p].slug = s

\* POST /: body validation, then SELECT role FROM org_memberships.
CreateProjectReadActor ==
  /\ hreq.pc = "handler" /\ hreq.op = "createProject"
  /\ IF hreq.name = "" \/ hreq.slug = "" THEN Respond(400)
     ELSE IF RoleOf(HOrg, HActor) \notin {"OWNER", "ADMIN"} THEN Respond(403)
     ELSE Goto("checkSlug")
  /\ UNCHANGED <<dbVars, svcVars, pipeVars>>

CreateProjectCheckSlug ==
  /\ hreq.pc = "checkSlug" /\ hreq.op = "createProject"
  /\ IF SlugTaken(HOrg, hreq.slug, 0) THEN Respond(409) ELSE Goto("insert")
  /\ UNCHANGED <<dbVars, svcVars, pipeVars>>

\* INSERT INTO projects (organization_id, name, slug) RETURNING id; the id
\* comes from the sequence, which advances even when UNIQUE
\* (organization_id, slug) rejects the row.
CreateProjectInsert ==
  LET p == seqs.projects + 1 IN
  /\ hreq.pc = "insert" /\ hreq.op = "createProject"
  /\ p <= MaxProjects
  /\ seqs' = [seqs EXCEPT !.projects = p]
  /\ IF SlugTaken(HOrg, hreq.slug, 0)
     THEN /\ UNCHANGED projects
          /\ Respond(500)
     ELSE /\ projects' = [projects EXCEPT ![p] =
                            [organizationId |-> HOrg, name |-> hreq.name, slug |-> hreq.slug]]
          /\ hreq' = [hreq EXCEPT !.projectId = IdString(p), !.pc = "addCreator"]
  /\ UNCHANGED <<orgMemberships, projectMembers, tasks, activities, svcVars, pipeVars>>

\* INSERT INTO project_members (organization_id, project_id, user_id, role)
\* VALUES ($1, $2, $3, 'EDITOR')
CreateProjectAddCreator ==
  LET p == Bigint(hreq.projectId) IN
  /\ hreq.pc = "addCreator" /\ hreq.op = "createProject"
  /\ IF ProjectMemberKeysHold(HOrg, p, HActor) /\ projectMembers[<<p, HActor>>] = "none"
     THEN /\ projectMembers' = [projectMembers EXCEPT ![<<p, HActor>>] = "EDITOR"]
          /\ Goto("log")
     ELSE /\ UNCHANGED projectMembers
          /\ Respond(500)
  /\ UNCHANGED <<orgMemberships, otherTables, svcVars, pipeVars>>

\* ActivityService.logProjectActivity(organizationId, userId, 'created', ...)
CreateProjectLog ==
  /\ hreq.pc = "log" /\ hreq.op = "createProject"
  /\ Len(recorded) < MaxRecorded
  /\ RecordActivity(HOrg, HActor, "NOTIFY", "created", "project", hreq.projectId)
  /\ Respond(201)
  /\ UNCHANGED <<orgMemberships, projectMembers, projects, tasks,
                 now, calls, parked, build, wsVars, organizations, pipeVars>>

\* PUT /:projectId: the access query joins the project with the caller's
\* project_members and org_memberships rows.
UpdateProjectReadAccess ==
  LET p == Bigint(hreq.projectId) IN
  /\ hreq.pc = "handler" /\ hreq.op = "updateProject"
  /\ IF ~(p \in Projects /\ ProjectOrg(p) = HOrg) THEN Respond(404)
     ELSE IF ~CanEdit(ProjectRoleOf(p, HActor), RoleOf(ProjectOrg(p), HActor))
          THEN Respond(403)
     ELSE IF hreq.slug # "" THEN Goto("checkSlug")
     ELSE Goto("write")
  /\ UNCHANGED <<dbVars, svcVars, pipeVars>>

UpdateProjectCheckSlug ==
  /\ hreq.pc = "checkSlug" /\ hreq.op = "updateProject"
  /\ IF SlugTaken(HOrg, hreq.slug, Bigint(hreq.projectId)) THEN Respond(409)
     ELSE Goto("write")
  /\ UNCHANGED <<dbVars, svcVars, pipeVars>>

\* UPDATE projects SET name = .., slug = .. WHERE id = $n AND organization_id = $m
UpdateProjectWrite ==
  LET p == Bigint(hreq.projectId)
      name == IF hreq.name # "" THEN hreq.name ELSE projects[p].name
      slug == IF hreq.slug # "" THEN hreq.slug ELSE projects[p].slug
  IN
  /\ hreq.pc = "write" /\ hreq.op = "updateProject"
  /\ IF hreq.name = "" /\ hreq.slug = ""
     THEN /\ UNCHANGED projects
          /\ Respond(400)
     ELSE IF ~(p \in Projects /\ ProjectOrg(p) = HOrg)
     THEN /\ UNCHANGED projects
          /\ Respond(200)
     ELSE IF SlugTaken(HOrg, slug, p)
     THEN /\ UNCHANGED projects
          /\ Respond(500)
     ELSE /\ projects' = [projects EXCEPT ![p] = [@ EXCEPT !.name = name, !.slug = slug]]
          /\ Respond(200)
  /\ UNCHANGED <<orgMemberships, projectMembers, tasks, activities, seqs, svcVars, pipeVars>>

\* The project deleted before the caller's role is looked at.
DeleteThenCheck ==
  /\ hreq.pc = "handler" /\ hreq.op = "deleteProject"
  /\ projects' = [projects EXCEPT ![Bigint(hreq.projectId)] = NoProject]
  /\ IF RoleOf(HOrg, HActor) \notin {"OWNER", "ADMIN"} THEN Respond(403)
     ELSE Goto("checkExists")
  /\ UNCHANGED <<orgMemberships, projectMembers, tasks, activities, seqs, svcVars, pipeVars>>

\* DELETE /:projectId
DeleteProjectReadActor ==
  /\ hreq.pc = "handler" /\ hreq.op = "deleteProject"
  /\ IF RoleOf(HOrg, HActor) \notin {"OWNER", "ADMIN"} THEN Respond(403)
     ELSE Goto("checkExists")
  /\ UNCHANGED <<dbVars, svcVars, pipeVars>>

\* SELECT id FROM projects WHERE id = $1 AND organization_id = $2
DeleteProjectCheckExists ==
  LET p == Bigint(hreq.projectId) IN
  /\ hreq.pc = "checkExists" /\ hreq.op = "deleteProject"
  /\ IF p \in Projects /\ ProjectOrg(p) = HOrg THEN Goto("log") ELSE Respond(404)
  /\ UNCHANGED <<dbVars, svcVars, pipeVars>>

\* The activity is logged before the row is deleted.
DeleteProjectLog ==
  /\ hreq.pc = "log" /\ hreq.op = "deleteProject"
  /\ Len(recorded) < MaxRecorded
  /\ RecordActivity(HOrg, HActor, "NOTIFY", "deleted", "project", hreq.projectId)
  /\ Goto("delete")
  /\ UNCHANGED <<orgMemberships, projectMembers, projects, tasks,
                 now, calls, parked, build, wsVars, organizations, pipeVars>>

\* DELETE FROM projects WHERE id = $1 AND organization_id = $2; the rows of
\* project_members and tasks that reference the project go with it
\* (ON DELETE CASCADE).
DeleteProjectDelete ==
  LET p == Bigint(hreq.projectId)
      there == p \in Projects /\ ProjectOrg(p) = HOrg
  IN
  /\ hreq.pc = "delete" /\ hreq.op = "deleteProject"
  /\ IF there
     THEN /\ projects' = [projects EXCEPT ![p] = NoProject]
          /\ projectMembers' = [k \in DOMAIN projectMembers |->
                                  IF k[1] = p THEN "none" ELSE projectMembers[k]]
          /\ tasks' = [t \in TaskIds |->
                         IF tasks[t].projectId = p THEN NoTask ELSE tasks[t]]
     ELSE UNCHANGED <<projects, projectMembers, tasks>>
  /\ Respond(200)
  /\ UNCHANGED <<orgMemberships, activities, seqs, svcVars, pipeVars>>

ProjectOps == {"createProject", "updateProject", "deleteProject"}

\* A project request of organization 1.
ProjectArrive ==
  /\ hreq.pc = "idle"
  /\ \E op \in ProjectOps, a \in {"1", "2", "3"}, p \in {"1", "3"},
        name \in {"", "n"}, slug \in {"", "p1", "s"} :
       /\ (op = "createProject") => (p = "1" /\ seqs.projects < MaxProjects)
       /\ (op = "deleteProject") => (name = "" /\ slug = "")
       /\ (op # "updateProject") => Len(recorded) < MaxRecorded
       /\ hreq' = [IdleHReq EXCEPT !.pc = "bind", !.op = op, !.actor = a,
                                   !.organizationId = "1", !.projectId = p,
                                   !.name = name, !.slug = slug,
                                   !.before = Snapshot]
  /\ UNCHANGED <<dbVars, svcVars, pipeVars>>

\* Users 2 and 3 of organization 1 hold any project role on project 1:
\* every combination is the outcome of project-member requests.
InitRoles ==
  /\ orgMemberships = SeedMemberships
  /\ \E r2, r3 \in {"none", "VIEWER", "EDITOR"} :
       projectMembers = [SeedProjectMembers EXCEPT ![<<1, 2>>] = r2, ![<<1, 3>>] = r3]
  /\ projects = SeedProjects
  /\ tasks = [t \in TaskIds |-> NoTask]
  /\ activities = <<>>
  /\ seqs = [projects |-> 2, tasks |-> 0, activities |-> 0]
  /\ InitSvc
  /\ pool = [c \in Conns |-> FreshConn]
  /\ req = [r \in Reqs |-> IdleReq]
  /\ queryLog = {}
  /\ hreq = IdleHReq

NextProjects ==
  \/ ProjectArrive
  \/ HBind
  \/ CreateProjectReadActor
  \/ CreateProjectCheckSlug
  \/ CreateProjectInsert
  \/ CreateProjectAddCreator
  \/ CreateProjectLog
  \/ UpdateProjectReadAccess
  \/ UpdateProjectCheckSlug
  \/ UpdateProjectWrite
  \/ DeleteProjectReadActor
  \/ DeleteProjectCheckExists
  \/ DeleteProjectLog
  \/ DeleteProjectDelete
  \/ HFinish

SpecProjects == InitRoles /\ [][NextProjects]_vars

\* C12: a project update is authorized if and only if the caller's
\* organization role is OWNER or ADMIN or the caller's role on the project
\* is EDITOR: an update of an existing project ends in 403, with the
\* project untouched, exactly when neither holds.
C12_UpdateIffAdminOrEditor ==
  (hreq.pc = "done" /\ hreq.op = "updateProject"
     /\ hreq.before.projects[Bigint(hreq.projectId)].organizationId = HOrg) =>
    LET p == Bigint(hreq.projectId)
        orgRole == hreq.before.om[<<HOrg, HActor>>]
        projectRole == hreq.before.pm[<<p, HActor>>]
        allowed == orgRole \in {"OWNER", "ADMIN"} \/ projectRole = "EDITOR"
    IN
    /\ (hreq.status = 403) <=> ~allowed
    /\ hreq.status = 403 => projects = hreq.before.projects
    /\ (allowed /\ hreq.name # ""
          /\ \A q \in Projects \ {p} :
               ~(hreq.before.projects[q].organizationId = HOrg
                 /\ hreq.before.projects[q].slug = hreq.slug)) =>
         /\ hreq.status = 200
         /\ projects[p].name = hreq.name

C12_Witness ==
  /\ hreq.pc = "done" /\ hreq.op = "updateProject" /\ hreq.status = 200
  /\ hreq.before.om[<<HOrg, HActor>>] = "USER"
  /\ hreq.before.pm[<<Bigint(hreq.projectId), HActor>>] = "EDITOR"
  /\ projects # hreq.before.projects

\* ---------------------------------------------------------------------
\* Task handlers (task controller of part_006): create, update, delete.
\* ---------------------------------------------------------------------

\* The values of the task_status type.
TaskStatus == {"TODO", "INPROGRESS", "DONE"}

\* A body field the request does not carry (undefined in the handler).
Undefined == "undefined"

\* INSERT INTO activities (...) VALUES ($1, $2, 'NOTIFY', $3, 'task', $4) of
\* the task handlers: a row of the activities table and nothing else.
InsertActivity(o, actorId, message, objectType, objectId) ==
  LET row == [id |-> IdString(seqs.activities + 1), organizationId |-> IdString(o),
              actorId |-> IdString(actorId), kind |-> "NOTIFY", message |-> message,
              objectType |-> objectType, objectId |-> objectId]
  IN
  /\ activities' = Append(activities, row)
  /\ seqs' = [seqs EXCEPT !.activities = @ + 1]
  /\ recorded' = Append(recorded, row)

\* The status check with the assignee forgotten.
StatusEditorsOnly(status, isAssignee, isEditor) == status # Undefined /\ ~isEditor

\* if (status !== undefined && !isAssignee && !isEditor) return 403
StatusChangeDenied(status, isAssignee, isEditor) ==
  status # Undefined /\ ~isAssignee /\ ~isEditor

\* The check of the other fields left out.
NoDetailsCheck(details, isEditor) == FALSE

\* if ((title !== undefined || ... || orderInBoard !== undefined) && !isEditor)
\* return 403
DetailsChangeDenied(details, isEditor) == details /\ ~isEditor

\* const isEditor = project_role === 'EDITOR' || ['OWNER', 'ADMIN'].includes(org_role)
IsEditor(project_role, org_role) ==
  project_role = "EDITOR" \/ org_role \in {"OWNER", "ADMIN"}

\* The project of the request exists in the request's organization.
HProject == Bigint(hreq.projectId)

HTask == Bigint(hreq.taskId)

ProjectFound == HProject \in Projects /\ ProjectOrg(HProject) = HOrg

\* POST /:projectId/tasks
CreateTaskReadAccess ==
  /\ hreq.pc = "handler" /\ hreq.op = "createTask"
  /\ IF hreq.title \in {Undefined, ""} THEN Respond(400)
     ELSE IF ~ProjectFound THEN Respond(404)
     ELSE IF ~IsEditor(ProjectRoleOf(HProject, HActor), RoleOf(HOrg, HActor)) THEN Respond(403)
     ELSE IF hreq.assigneeId \notin {Undefined, "null"} THEN Goto("checkAssignee")
     ELSE Goto("insert")
  /\ UNCHANGED <<dbVars, svcVars, pipeVars>>

\* SELECT id FROM project_members WHERE project_id = $1 AND user_id = $2:
\* project_members has no column id, the statement fails and the handler
\* answers 500.
AssigneeCheck ==
  /\ hreq.pc = "checkAssignee" /\ hreq.op \in {"createTask", "updateTask"}
  /\ Respond(500)
  /\ UNCHANGED <<dbVars, svcVars, pipeVars>>

\* INSERT INTO tasks (...) VALUES (..., 'TODO') RETURNING id
CreateTaskInsert ==
  LET t == seqs.tasks + 1 IN
  /\ hreq.pc = "insert" /\ hreq.op = "createTask"
  /\ t <= MaxTasks
  /\ seqs' = [seqs EXCEPT !.tasks = t]
  /\ IF ProjectFound
     THEN /\ tasks' = [tasks EXCEPT ![t] =
                         [organizationId |-> HOrg, projectId |-> HProject,
                          assigneeId |-> 0, status |-> "TODO",
                          title |-> hreq.title, createdBy |-> HActor]]
          /\ hreq' = [hreq EXCEPT !.taskId = IdString(t), !.pc = "log"]
     ELSE /\ UNCHANGED tasks
          /\ Respond(500)
  /\ UNCHANGED <<orgMemberships, projectMembers, projects, activities, svcVars, pipeVars>>

CreateTaskLog ==
  /\ hreq.pc = "log" /\ hreq.op = "createTask"
  /\ Len(recorded) < MaxRecorded
  /\ InsertActivity(HOrg, HActor, "created", "task", hreq.taskId)
  /\ Respond(201)
  /\ UNCHANGED <<orgMemberships, projectMembers, projects, tasks,
                 redis, now, broadcasts, calls, parked, build, wsVars, organizations, pipeVars>>

\* PUT /:projectId/tasks/:taskId: SELECT t.*, p.organization_id FROM tasks t
\* JOIN projects p ... WHERE t.id = $1 AND t.project_id = $2 AND
\* p.organization_id = $3, then isAssignee.
UpdateTaskReadTask ==
  /\ hreq.pc = "handler" /\ hreq.op = "updateTask"
  /\ IF HTask \in TaskIds /\ tasks[HTask].organizationId # 0
        /\ tasks[HTask].projectId = HProject /\ ProjectFound
     THEN hreq' = [hreq EXCEPT !.pc = "access",
                               !.isAssignee = (tasks[HTask].assigneeId # 0
                                   /\ IdString(tasks[HTask].assigneeId) = hreq.actor)]
     ELSE Respond(404)
  /\ UNCHANGED <<dbVars, svcVars, pipeVars>>

\* The access query and the two permission checks; userAccess[0] of a
\* project that is gone throws (500).
UpdateTaskReadAccess ==
  LET isEditor == IsEditor(ProjectRoleOf(HProject, HActor), RoleOf(HOrg, HActor))
      details  == hreq.title # Undefined \/ hreq.assigneeId # Undefined
  IN
  /\ hreq.pc = "access" /\ hreq.op = "updateTask"
  /\ IF ~ProjectFound THEN Respond(500)
     ELSE IF StatusChangeDenied(hreq.taskStatus, hreq.isAssignee, isEditor) THEN Respond(403)
     ELSE IF DetailsChangeDenied(details, isEditor) THEN Respond(403)
     ELSE IF hreq.assigneeId \notin {Undefined, "null"}
          THEN hreq' = [hreq EXCEPT !.pc = "checkAssignee", !.isEditor = isEditor]
     ELSE hreq' = [hreq EXCEPT !.pc = "write", !.isEditor = isEditor]
  /\ UNCHANGED <<dbVars, svcVars, pipeVars>>

\* UPDATE tasks SET ... WHERE id = $n; a status outside task_status makes
\* the statement fail.
UpdateTaskWrite ==
  LET t == HTask IN
  /\ hreq.pc = "write" /\ hreq.op = "updateTask"
  /\ IF hreq.title = Undefined /\ hreq.taskStatus = Undefined /\ hreq.assigneeId = Undefined
     THEN /\ UNCHANGED tasks
          /\ Respond(400)
     ELSE IF hreq.taskStatus \notin TaskStatus \cup {Undefined}
     THEN /\ UNCHANGED tasks
          /\ Respond(500)
     ELSE /\ tasks' = IF t \in TaskIds /\ tasks[t].organizationId # 0
                      THEN [tasks EXCEPT ![t] =
                              [@ EXCEPT
                                 !.title = IF hreq.title # Undefined THEN hreq.title ELSE @,
                                 !.status = IF hreq.taskStatus # Undefined THEN hreq.taskStatus ELSE @,
                                 !.assigneeId = IF hreq.assigneeId = "null" THEN 0 ELSE @]]
                      ELSE tasks
          /\ Goto("log")
  /\ UNCHANGED <<orgMemberships, projectMembers, projects, activities, seqs, svcVars, pipeVars>>

UpdateTaskLog ==
  /\ hreq.pc = "log" /\ hreq.op = "updateTask"
  /\ Len(recorded) < MaxRecorded
  /\ InsertActivity(HOrg, HActor, "updated", "task", hreq.taskId)
  /\ Respond(200)
  /\ UNCHANGED <<orgMemberships, projectMembers, projects, tasks,
                 redis, now, broadcasts, calls, parked, build, wsVars, organizations, pipeVars>>

\* DELETE /:projectId/tasks/:taskId
DeleteTaskReadAccess ==
  /\ hreq.pc = "handler" /\ hreq.op = "deleteTask"
  /\ IF ~ProjectFound THEN Respond(404)
     ELSE IF ~IsEditor(ProjectRoleOf(HProject, HActor), RoleOf(HOrg, HActor)) THEN Respond(403)
     ELSE Goto("checkTask")
  /\ UNCHANGED <<dbVars, svcVars, pipeVars>>

\* SELECT title FROM tasks WHERE id = $1 AND project_id = $2 AND organization_id = $3
TaskFound ==
  /\ HTask \in TaskIds
  /\ tasks[HTask].organizationId = HOrg /\ tasks[HTask].projectId = HProject

DeleteTaskCheckTask ==
  /\ hreq.pc = "checkTask" /\ hreq.op = "deleteTask"
  /\ IF TaskFound THEN Goto("delete") ELSE Respond(404)
  /\ UNCHANGED <<dbVars, svcVars, pipeVars>>

DeleteTaskDelete ==
  /\ hreq.pc = "delete" /\ hreq.op = "deleteTask"
  /\ tasks' = IF TaskFound THEN [tasks EXCEPT ![HTask] = NoTask] ELSE tasks
  /\ Goto("log")
  /\ UNCHANGED <<orgMemberships, projectMembers, projects, activities, seqs, svcVars, pipeVars>>

DeleteTaskLog ==
  /\ hreq.pc = "log" /\ hreq.op = "deleteTask"
  /\ Len(recorded) < MaxRecorded
  /\ InsertActivity(HOrg, HActor, "deleted", "task", hreq.taskId)
  /\ Respond(200)
  /\ UNCHANGED <<orgMemberships, projectMembers, projects, tasks,
                 redis, now, broadcasts, calls, parked, build, wsVars, organizations, pipeVars>>

TaskOps == {"createTask", "updateTask", "deleteTask"}

\* A task request of organization 1 and its project 1.
TaskArrive ==
  /\ hreq.pc = "idle"
  /\ Len(recorded) < MaxRecorded
  /\ \E op \in TaskOps, a \in {"1", "2", "3"}, t \in {"1", "2"},
        status \in {Undefined, "DONE", "BOGUS"}, title \in {Undefined, "t2"},
        assigneeId \in {Undefined, "null", "3"} :
       /\ (op = "createTask") => (t = "1" /\ status = Undefined /\ seqs.tasks < MaxTasks)
       /\ (op = "deleteTask") =>
            (status = Undefined /\ title = Undefined /\ assigneeId = Undefined)
       /\ hreq' = [IdleHReq EXCEPT !.pc = "bind", !.op = op, !.actor = a,
                                   !.organizationId = "1", !.projectId = "1",
                                   !.taskId = t, !.taskStatus = status,
                                   !.title = title, !.assigneeId = assigneeId,
                                   !.before = Snapshot]
  /\ UNCHANGED <<dbVars, svcVars, pipeVars>>

\* Task 1 of project 1 exists, created by user 1 or user 3 and assigned to
\* nobody, to the ADMIN (user 2) or to the USER (user 3); user 3 holds
\* any project role, user 2 none or VIEWER. The rows are table contents
\* the schema admits; the handlers decide on whatever rows they read.
InitTasks ==
  /\ orgMemberships = SeedMemberships
  /\ \E r2 \in {"none", "VIEWER"}, r3 \in {"none", "VIEWER", "EDITOR"} :
       projectMembers = [SeedProjectMembers EXCEPT ![<<1, 2>>] = r2, ![<<1, 3>>] = r3]
  /\ projects = SeedProjects
  /\ \E assignee \in {0, 2, 3}, creator \in {1, 3} :
       tasks = [t \in TaskIds |->
                  IF t = 1
                  THEN [organizationId |-> 1, projectId |-> 1, assigneeId |-> assignee,
                        status |-> "TODO", title |-> "t1", createdBy |-> creator]
                  ELSE NoTask]
  /\ activities = <<>>
  /\ seqs = [projects |-> 2, tasks |-> 1, activities |-> 0]
  /\ InitSvc
  /\ pool = [c \in Conns |-> FreshConn]
  /\ req = [r \in Reqs |-> IdleReq]
  /\ queryLog = {}
  /\ hreq = IdleHReq

NextTasks ==
  \/ TaskArrive
  \/ HBind
  \/ CreateTaskReadAccess
  \/ AssigneeCheck
  \/ CreateTaskInsert
  \/ CreateTaskLog
  \/ UpdateTaskReadTask
  \/ UpdateTaskReadAccess
  \/ UpdateTaskWrite
  \/ UpdateTaskLog
  \/ DeleteTaskReadAccess
  \/ DeleteTaskCheckTask
  \/ DeleteTaskDelete
  \/ DeleteTaskLog
  \/ HFinish

SpecTasks == InitTasks /\ [][NextTasks]_vars

\* What a finished task update found when it arrived.
TaskWas == hreq.before.tasks[HTask]

UpdateOfExistingTask ==
  /\ hreq.pc = "done" /\ hreq.op = "updateTask"
  /\ TaskWas.organizationId = HOrg /\ TaskWas.projectId = HProject

WasAssignee == TaskWas.assigneeId = HActor

CouldEditProject ==
  \/ hreq.before.om[<<HOrg, HActor>>] \in {"OWNER", "ADMIN"}
  \/ hreq.before.pm[<<HProject, HActor>>] = "EDITOR"

MaxLogged == 1

\* A request of organization 1 to any of the mutating routes: member
\* management aimed at user 1 or user 3 and project-member management
\* aimed at user 3, project
\* and task creation, update and deletion by the OWNER (user 1) or by
\* user 3 in whatever role the member requests have given it.
RouteArrive ==
  /\ hreq.pc = "idle"
  /\ \E op \in OrgMemberOps \cup ProjectMemberOps \cup ProjectOps \cup TaskOps,
        a \in {"1", "2", "3"}, u \in {"1", "3"},
        ro \in {"", "OWNER", "ADMIN", "EDITOR", "VIEWER"},
        status \in {Undefined, "DONE"}, title \in {Undefined, "t2"},
        assigneeId \in {Undefined, "3"} :
       /\ (op \in {"addMember", "updateRole"}) => ro \in {"", "OWNER", "ADMIN"}
       /\ (assigneeId # Undefined) =>
            (op = "updateTask" /\ status = Undefined /\ title = Undefined)
       /\ (ro = "OWNER") => a # "1"
       /\ (op \in {"addProjectMember", "updateProjectMember"}) => ro \in {"EDITOR", "VIEWER"}
       /\ (op \notin {"addMember", "updateRole", "addProjectMember", "updateProjectMember"})
            => ro = ""
       /\ (op \notin OrgMemberOps \cup ProjectMemberOps) => u = "1"
       /\ (op \in ProjectMemberOps) => u = "3"
       /\ (op # "updateTask") => status = Undefined
       /\ (op \notin {"updateTask", "createTask"}) => title = Undefined
       /\ (op \in (ProjectOps \cup TaskOps) \ {"updateProject"}) => Len(recorded) < MaxLogged
       /\ (op \notin OrgMemberOps) => a # "2"
       /\ (op = "createTask") => title = "t2"
       /\ (op = "createProject") => seqs.projects < MaxProjects
       /\ (op = "createTask") => seqs.tasks < MaxTasks
       /\ hreq' = [IdleHReq EXCEPT
                     !.pc = "bind", !.op = op, !.actor = a, !.organizationId = "1",
                     !.userId = IF op \in OrgMemberOps \cup ProjectMemberOps THEN u ELSE "",
                     !.role = ro,
                     !.projectId = "1",
                     !.name = IF op \in {"createProject", "updateProject"} THEN "n" ELSE "",
                     !.slug = CASE op = "createProject" -> "c"
                                [] op = "updateProject" -> "s"
                                [] OTHER -> "",
                     !.taskId = IF op \in {"updateTask", "deleteTask"} THEN "1" ELSE "",
                     !.taskStatus = status, !.title = title, !.assigneeId = assigneeId,
                     !.before = Snapshot]
  /\ UNCHANGED <<dbVars, svcVars, pipeVars>>

NextRoutes ==
  \/ RouteArrive
  \/ HBind
  \/ AddMemberReadActor
  \/ AddMemberCheckUser
  \/ AddMemberCheckExisting
  \/ AddMemberWrite
  \/ UpdateRoleReadActor
  \/ UpdateRoleReadTarget
  \/ UpdateRoleWrite
  \/ RemoveMemberReadActor
  \/ RemoveMemberReadTarget
  \/ RemoveMemberWrite
  \/ AddProjectMemberReadActor
  \/ AddProjectMemberCheckOrgMember
  \/ AddProjectMemberCheckExisting
  \/ AddProjectMemberWrite
  \/ UpdateProjectMemberReadActor
  \/ UpdateProjectMemberWrite
  \/ RemoveProjectMemberReadActor
  \/ RemoveProjectMemberWrite
  \/ CreateProjectReadActor
  \/ CreateProjectCheckSlug
  \/ CreateProjectInsert
  \/ CreateProjectAddCreator
  \/ CreateProjectLog
  \/ UpdateProjectReadAccess
  \/ UpdateProjectCheckSlug
  \/ UpdateProjectWrite
  \/ DeleteProjectReadActor
  \/ DeleteProjectCheckExists
  \/ DeleteProjectLog
  \/ DeleteProjectDelete
  \/ CreateTaskReadAccess
  \/ AssigneeCheck
  \/ CreateTaskInsert
  \/ CreateTaskLog
  \/ UpdateTaskReadTask
  \/ UpdateTaskReadAccess
  \/ UpdateTaskWrite
  \/ UpdateTaskLog
  \/ DeleteTaskReadAccess
  \/ DeleteTaskCheckTask
  \/ DeleteTaskDelete
  \/ DeleteTaskLog
  \/ HFinish

\* The seed data and one task of project 1, created by the OWNER and
\* assigned to nobody.
InitRoutes ==
  /\ orgMemberships = SeedMemberships
  /\ projectMembers = SeedProjectMembers
  /\ projects = SeedProjects
  /\ tasks = [t \in TaskIds |->
                IF t = 1
                THEN [organizationId |-> 1, projectId |-> 1, assigneeId |-> 0,
                      status |-> "TODO", title |-> "t1", createdBy |-> 1]
                ELSE NoTask]
  /\ activities = <<>>
  /\ seqs = [projects |-> 2, tasks |-> 1, activities |-> 0]
  /\ InitSvc
  /\ pool = [c \in Conns |-> FreshConn]
  /\ req = [r \in Reqs |-> IdleReq]
  /\ queryLog = {}
  /\ hreq = IdleHReq

SpecRoutes == InitRoutes /\ [][NextRoutes]_vars

\* C15: fail-closed. A request that ends with 403, from the context
\* binding or from a handler's authorization check, has changed nothing:
\* memberships, projects, project members, tasks, the activity store, the
\* live cache and the broadcast stream are what they were when it arrived.
C15_ForbiddenChangesNothing ==
  (hreq.pc = "done" /\ hreq.status = 403) => Snapshot = hreq.before

C15_Witness ==
  /\ hreq.pc = "done" /\ hreq.status = 403 /\ hreq.op = "deleteProject"
  /\ hreq.before.om[<<HOrg, HActor>>] = "USER"
  /\ hreq.before.pm[<<1, HActor>>] = "EDITOR"
  /\ hreq.before.projects[1].name = "n"

\* ---------------------------------------------------------------------
\* Two requests in flight. Node runs one handler at a time and switches
\* at an await: hreq is the handler that runs, parked the one that waits
\* for its statement to return.
\* ---------------------------------------------------------------------

Switch ==
  /\ hreq' = parked
  /\ parked' = hreq
  /\ UNCHANGED <<dbVars, redis, now, broadcasts, recorded, calls, build, wsVars, organizations, pipeVars>>

MembershipOps ==
  {"addProjectMember", "createProject", "updateProjectMember",
   "removeProjectMember", "removeMember"}

\* A membership request of organization 1, sent by its OWNER or its ADMIN
\* and aimed at user 2 or user 3.
MembershipArrive ==
  /\ hreq.pc = "idle"
  /\ \E op \in MembershipOps, a \in {"1", "2"}, u \in {"2", "3"},
        ro \in {"", "EDITOR"} :
       /\ (op \in {"removeProjectMember", "removeMember", "createProject"}) => ro = ""
       /\ (op = "updateProjectMember") => ro = "EDITOR"
       /\ (op = "createProject") =>
            (u = "2" /\ seqs.projects < MaxProjects /\ Len(recorded) < MaxRecorded)
       /\ hreq' = [IdleHReq EXCEPT
                     !.pc = "bind", !.op = op, !.actor = a, !.organizationId = "1",
                     !.userId = IF op = "createProject" THEN "" ELSE u,
                     !.role = ro, !.projectId = "1",
                     !.name = IF op = "createProject" THEN "n" ELSE "",
                     !.slug = IF op = "createProject" THEN "c" ELSE ""]
  /\ UNCHANGED <<dbVars, svcVars, pipeVars>>

NextMemberships ==
  \/ MembershipArrive
  \/ Switch
  \/ HBind
  \/ AddProjectMemberReadActor
  \/ AddProjectMemberCheckOrgMember
  \/ AddProjectMemberCheckExisting
  \/ AddProjectMemberWrite
  \/ CreateProjectReadActor
  \/ CreateProjectCheckSlug
  \/ CreateProjectInsert
  \/ CreateProjectAddCreator
  \/ CreateProjectLog
  \/ UpdateProjectMemberReadActor
  \/ UpdateProjectMemberWrite
  \/ RemoveProjectMemberReadActor
  \/ RemoveProjectMemberWrite
  \/ RemoveMemberReadActor
  \/ RemoveMemberReadTarget
  \/ RemoveMemberWrite
  \/ HFinish

SpecMemberships == InitOrg /\ [][NextMemberships]_vars

\* C16: under every interleaving of add-project-member, create-project,
\* update/remove-project-member and remove-org-member requests, each
\* project_members row belongs to a user who has an org_memberships row in
\* the project's organization.
C16_ProjectMemberIsOrgMember ==
  \A k \in DOMAIN projectMembers :
    projectMembers[k] # "none" => RoleOf(ProjectOrg(k[1]), k[2]) # "none"

\* An add-project-member request that passed its membership check, lost
\* the user's org membership to a concurrent removal and was refused by the
\* foreign key.
C16_Witness ==
  /\ hreq.pc = "done" /\ hreq.op = "addProjectMember" /\ hreq.status = 500
  /\ RoleOf(HOrg, HTarget) = "none"
  /\ \A p \in Projects : projectMembers[<<p, HTarget>>] = "none"

\* ---------------------------------------------------------------------
\* RedisActivityService, one Redis command at a time. A call of
\* storeActivity or deleteActivity is suspended at every await; calls[c]
\* is the state of caller c. An activity is told from the others by its
\* id, the clock value of the call that stores it.
\* ---------------------------------------------------------------------

MaxStores == 22   \* storeActivity calls in a run of SpecStore

MaxCalls == 3     \* storeActivity / deleteActivity calls in a run of SpecCache

Room == "org1"

AllIdle == \A c \in Callers : calls[c].pc = "idle"

\* storeActivity(roomKey, activity) is called.
StoreCall(c) ==
  /\ calls[c].pc = "idle"
  /\ calls' = [calls EXCEPT ![c] =
                 [pc |-> "lLen", op |-> "store", roomKey |-> Room,
                  activity |-> [id |-> now], before |-> redis[Room]]]
  /\ now' = now + 1
  /\ UNCHANGED <<redis, broadcasts, recorded, parked, build, wsVars, organizations, dbVars, pipeVars, hreq>>

\* const currentLength = await this.client.lLen(key)
StoreLLen(c) ==
  /\ calls[c].pc = "lLen"
  /\ calls' = [calls EXCEPT ![c].pc =
                 IF AtCapacity(Len(redis[calls[c].roomKey])) THEN "rPop" ELSE "lPush"]
  /\ UNCHANGED <<redis, now, broadcasts, recorded, parked, build, wsVars, organizations, dbVars, pipeVars, hreq>>

\* await this.client.rPop(key)
StoreRPop(c) ==
  LET k == calls[c].roomKey IN
  /\ calls[c].pc = "rPop"
  /\ redis' = [redis EXCEPT ![k] = IF @ = <<>> THEN @ ELSE SubSeq(@, 1, Len(@) - 1)]
  /\ calls' = [calls EXCEPT ![c].pc = "lPush"]
  /\ UNCHANGED <<now, broadcasts, recorded, parked, build, wsVars, organizations, dbVars, pipeVars, hreq>>

\* await this.client.lPush(key, activityData)
StoreLPush(c) ==
  LET k == calls[c].roomKey IN
  /\ calls[c].pc = "lPush" /\ calls[c].op = "store"
  /\ redis' = [redis EXCEPT ![k] = <<calls[c].activity>> \o @]
  /\ calls' = [calls EXCEPT ![c].pc = "expire"]
  /\ UNCHANGED <<now, broadcasts, recorded, parked, build, wsVars, organizations, dbVars, pipeVars, hreq>>

\* await this.client.expire(key, 604800); the call is over.
Expire(c) ==
  /\ calls[c].pc = "expire"
  /\ calls' = [calls EXCEPT ![c].pc = "returned"]
  /\ recorded' = IF calls[c].op = "store" THEN Append(recorded, calls[c].activity)
                 ELSE recorded
  /\ UNCHANGED <<redis, now, broadcasts, parked, build, wsVars, organizations, dbVars, pipeVars, hreq>>

\* The caller goes on.
Return(c) ==
  /\ calls[c].pc = "returned"
  /\ calls' = [calls EXCEPT ![c] = IdleCall]
  /\ UNCHANGED <<redis, now, broadcasts, recorded, parked, build, wsVars, organizations, dbVars, pipeVars, hreq>>

\* deleteActivity(roomKey, activityId) is called.
DeleteCall(c, activityId) ==
  /\ calls[c].pc = "idle"
  /\ calls' = [calls EXCEPT ![c] =
                 [pc |-> "lRange", op |-> "delete", roomKey |-> Room,
                  activityId |-> activityId, filteredActivities |-> <<>>,
                  before |-> redis[Room]]]
  /\ now' = now + 1
  /\ UNCHANGED <<redis, broadcasts, recorded, parked, build, wsVars, organizations, dbVars, pipeVars, hreq>>

KeepOthers(list, activityId) ==
  LET differs(item) == item.id # activityId IN SelectSeq(list, differs)

\* const allActivities = await this.client.lRange(key, 0, -1), filtered
DeleteLRange(c) ==
  /\ calls[c].pc = "lRange"
  /\ calls' = [calls EXCEPT ![c].pc = "del",
                            ![c].filteredActivities =
                               KeepOthers(redis[calls[c].roomKey], calls[c].activityId)]
  /\ UNCHANGED <<redis, now, broadcasts, recorded, parked, build, wsVars, organizations, dbVars, pipeVars, hreq>>

\* await this.client.del(key)
DeleteDel(c) ==
  /\ calls[c].pc = "del"
  /\ redis' = [redis EXCEPT ![calls[c].roomKey] = <<>>]
  /\ calls' = [calls EXCEPT ![c].pc =
                 IF calls[c].filteredActivities = <<>> THEN "returned" ELSE "lPush"]
  /\ UNCHANGED <<now, broadcasts, recorded, parked, build, wsVars, organizations, dbVars, pipeVars, hreq>>

\* for (const activity of filteredActivities) await this.client.lPush(key, activity)
DeleteLPush(c) ==
  LET k == calls[c].roomKey
      rest == Tail(calls[c].filteredActivities)
  IN
  /\ calls[c].pc = "lPush" /\ calls[c].op = "delete"
  /\ redis' = [redis EXCEPT ![k] = <<Head(calls[c].filteredActivities)>> \o @]
  /\ calls' = [calls EXCEPT ![c].filteredActivities = rest,
                            ![c].pc = IF rest = <<>> THEN "expire" ELSE "lPush"]
  /\ UNCHANGED <<now, broadcasts, recorded, parked, build, wsVars, organizations, dbVars, pipeVars, hreq>>

\* Nothing stored yet.
InitStore == InitOrg

\* storeActivity called when no other call is in flight.
SequentialStore ==
  /\ AllIdle
  /\ now <= MaxStores
  /\ \E c \in Callers : StoreCall(c)

NextStore ==
  \/ SequentialStore
  \/ \E c \in Callers : StoreLLen(c)
  \/ \E c \in Callers : StoreRPop(c)
  \/ \E c \in Callers : StoreLPush(c)
  \/ \E c \in Callers : Expire(c)
  \/ \E c \in Callers : Return(c)

SpecStore == InitStore /\ [][NextStore]_vars

\* The first n items of a list.
Take(list, n) == SubSeq(list, 1, IF n < Len(list) THEN n ELSE Len(list))

\* recorded, latest first.
Reverse(seq) == [i \in 1..Len(seq) |-> seq[Len(seq) + 1 - i]]

\* C17: storeActivity calls made one after another on one room, capacity
\* 20. A store into a list of fewer than 20 entries puts the new entry at
\* the head and evicts nothing; a store into a full list drops exactly the
\* tail entry and puts the new entry at the head; between calls the list is
\* the 20 most recently stored activities, latest first.
C17_SequentialStoreEvictsOldest ==
  /\ \A c \in Callers :
       calls[c].pc = "returned" =>
         LET was == calls[c].before IN
         /\ Len(was) < maxActivities => redis[Room] = <<calls[c].activity>> \o was
         /\ Len(was) >= maxActivities =>
              redis[Room] = <<calls[c].activity>> \o SubSeq(was, 1, Len(was) - 1)
  /\ AllIdle => redis[Room] = Take(Reverse(recorded), maxActivities)
  /\ Len(redis[Room]) <= maxActivities

\* The 21st store has returned: the list is full and the first activity is
\* gone.
C17_Witness ==
  /\ \E c \in Callers :
       /\ calls[c].pc = "returned"
       /\ Len(calls[c].before) = maxActivities
       /\ calls[c].before[maxActivities].id = 1
  /\ Len(redis[Room]) = maxActivities
  /\ redis[Room][maxActivities].id = 2

\* The activities 1..k stored one after another, latest first.
StoredInOrder(k) == [i \in 1..k |-> [id |-> k + 1 - i]]

\* Sizes of the room's list when the concurrent calls begin.
InitSizes == {1, 19}

\* The room holds the k activities of k earlier sequential stores.
InitCache ==
  /\ InitDb
  /\ \E k \in InitSizes :
       /\ redis = [r \in RoomKeys |-> IF r = Room THEN StoredInOrder(k) ELSE <<>>]
       /\ recorded = [i \in 1..k |-> [id |-> i]]
       /\ now = k + 1
  /\ broadcasts = <<>>
  /\ calls = [c \in Callers |-> IdleCall]
  /\ parked = IdleHReq
  /\ build = "cache"
  /\ InitWs
  /\ organizations = SeedOrganizations
  /\ pool = [c \in Conns |-> FreshConn]
  /\ req = [r \in Reqs |-> IdleReq]
  /\ queryLog = {}
  /\ hreq = IdleHReq

MayCall == \E k \in InitSizes : now > k /\ now <= k + MaxCalls

\* storeActivity called while other calls may be in flight.
ConcurrentStore ==
  /\ MayCall
  /\ \E c \in Callers : StoreCall(c)

\* deleteActivity is called on lists of at most this many entries.
MaxRewritten == 2

\* deleteActivity of the first activity or of an id the list does not hold.
ConcurrentDelete ==
  /\ MayCall
  /\ Len(redis[Room]) <= MaxRewritten
  /\ \E c \in Callers, activityId \in {0, 1} : DeleteCall(c, activityId)

NextCache ==
  \/ ConcurrentStore
  \/ ConcurrentDelete
  \/ \E c \in Callers : StoreLLen(c)
  \/ \E c \in Callers : StoreRPop(c)
  \/ \E c \in Callers : StoreLPush(c)
  \/ \E c \in Callers : DeleteLRange(c)
  \/ \E c \in Callers : DeleteDel(c)
  \/ \E c \in Callers : DeleteLPush(c)
  \/ \E c \in Callers : Expire(c)
  \/ \E c \in Callers : Return(c)

SpecCache == InitCache /\ [][NextCache]_vars

InList(activity, list) == \E j \in 1..Len(list) : list[j] = activity

\* The list never holds more than 20 entries.
CacheWithinCapacity == Len(redis[Room]) <= maxActivities

\* As long as no more than 20 activities were stored (nothing is due for
\* eviction), every stored activity other than the deleted one is in the
\* list once the calls have returned.
CacheLosesNothing ==
  (AllIdle /\ Len(recorded) <= maxActivities) =>
    \A i \in 1..Len(recorded) :
      recorded[i].id # 1 => InList(recorded[i], redis[Room])

\* C18: under every interleaving of storeActivity and deleteActivity calls
\* on one room the list never exceeds the capacity of 20 entries and no
\* stored activity is lost other than by eviction of the oldest.
C18_CacheSynchronized == CacheWithinCapacity /\ CacheLosesNothing

\* ---------------------------------------------------------------------
\* Recording an activity and reading the history back.
\* ---------------------------------------------------------------------

\* POST /activities: kind and message are required, kind is an ActivityKind.
PostActivityValidate ==
  /\ hreq.pc = "handler" /\ hreq.op = "postActivity"
  /\ IF hreq.kind = "" \/ hreq.kind \notin ActivityKind THEN Respond(400)
     ELSE Goto("save")
  /\ UNCHANGED <<dbVars, svcVars, pipeVars>>

\* activityRepository.save(activity) with organizationId taken from
\* req.params, which the activity router (no mergeParams) does not have:
\* the INSERT leaves organization_id out, the column is NOT NULL, the
\* statement fails and the handler answers 500.
PostActivitySave ==
  /\ hreq.pc = "save" /\ hreq.op = "postActivity"
  /\ Respond(500)
  /\ UNCHANGED <<dbVars, svcVars, pipeVars>>

HistoryOps == {"createProject", "createTask", "postActivity", "getActivities"}

\* The OWNER or the ADMIN of organization 1 creates a project or a task,
\* posts an activity, or reads the first page of the history.
HistoryArrive ==
  /\ hreq.pc = "idle"
  /\ \E op \in HistoryOps, a \in {"1", "2"}, kind \in {"", "SHOW", "BOGUS"},
        pg \in {"", "2"} :
       /\ (op # "postActivity") => kind = ""
       /\ (op # "getActivities") => pg = ""
       /\ (op \in {"createProject", "createTask"}) => Len(recorded) < MaxRecorded
       /\ (op = "createProject") => seqs.projects < MaxProjects
       /\ (op = "createTask") => seqs.tasks < MaxTasks
       /\ hreq' = [IdleHReq EXCEPT
                     !.pc = "bind", !.op = op, !.actor = a, !.organizationId = "1",
                     !.projectId = "1", !.kind = kind, !.page = pg,
                     !.name = IF op = "createProject" THEN "n" ELSE "",
                     !.slug = IF op = "createProject" THEN "c" ELSE "",
                     !.title = IF op = "createTask" THEN "t2" ELSE Undefined,
                     !.taskStatus = Undefined, !.assigneeId = Undefined]
  /\ UNCHANGED <<dbVars, svcVars, pipeVars>>

NextHistory ==
  \/ HistoryArrive
  \/ HBind
  \/ CreateProjectReadActor
  \/ CreateProjectCheckSlug
  \/ CreateProjectInsert
  \/ CreateProjectAddCreator
  \/ CreateProjectLog
  \/ CreateTaskReadAccess
  \/ CreateTaskInsert
  \/ CreateTaskLog
  \/ PostActivityValidate
  \/ PostActivitySave
  \/ GetActivitiesHandler
  \/ HFinish

SpecHistory == InitAct /\ [][NextHistory]_vars

\* The fields of an activity that the model carries.
SameFields(a, b) ==
  /\ a.organizationId = b.organizationId
  /\ a.actorId = b.actorId
  /\ a.kind = b.kind
  /\ a.message = b.message
  /\ a.objectType = b.objectType
  /\ a.objectId = b.objectId

\* The activities recorded for the organization of the request.
RecordedFor(organizationId) ==
  LET mine(a) == a.organizationId = organizationId IN SelectSeq(recorded, mine)

\* C19: round trip. Once an activity is recorded for organization O by
\* logActivity or by a task handler's insert, a retrieval for O with page 1
\* and limit 20 returns the latest recorded activity as its first entry,
\* with the same organizationId, actorId, kind, objectType and objectId.
C19_RecordedIsFirstInHistory ==
  (/\ hreq.pc = "done" /\ hreq.op = "getActivities" /\ hreq.status = 200
   /\ Number(hreq.page, 1) = 1 /\ Number(hreq.limit, 20) = 20
   /\ hreq.kind = "" /\ hreq.roomKey = "") =>
    LET mine == RecordedFor(hreq.organizationId) IN
    mine # <<>> =>
      /\ hreq.activities # <<>>
      /\ SameFields(hreq.activities[1], mine[Len(mine)])

\* The activities logActivity has recorded (the project handlers' calls).
LoggedActivities == LET byLogActivity(a) == a.objectType = "project" IN SelectSeq(recorded, byLogActivity)

\* The activity has a row in the activities table.
LoggedIsDurable ==
  \A i \in 1..Len(LoggedActivities) :
    \E j \in 1..Len(activities) : SameFields(activities[j], LoggedActivities[i])

\* The activity is in the Redis list of its organization's room.
LoggedIsCached ==
  \A i \in 1..Len(LoggedActivities) :
    LET list == redis[RoomKey(Bigint(LoggedActivities[i].organizationId))] IN
    \E j \in 1..Len(list) : SameFields(list[j], LoggedActivities[i])

\* C20: every activity a successful logActivity has recorded is in the
\* durable store and in the live cache of its organization.
C20_LoggedInBothStores == LoggedIsDurable /\ LoggedIsCached

\* ---- Recording and announcing an activity: order and failure ----

\* A create or delete request of organization 1.
AnnounceArrive ==
  /\ hreq.pc = "idle"
  /\ Len(recorded) < MaxRecorded
  /\ \E op \in {"createProject", "deleteProject"}, a \in {"1", "3"}, p \in {"1", "3"},
        slug \in {"p1", "s"} :
       /\ (op = "createProject") => (p = "1" /\ seqs.projects < MaxProjects)
       /\ (op = "deleteProject") => slug = "s"
       /\ hreq' = [IdleHReq EXCEPT !.pc = "bind", !.op = op, !.actor = a,
                                   !.organizationId = "1", !.projectId = p,
                                   !.name = "n", !.slug = slug,
                                   !.before = Snapshot]
  /\ UNCHANGED <<dbVars, svcVars, pipeVars>>

\* What logProjectActivity is called with by the handler being served.
HAction == IF hreq.op = "createProject" THEN "created" ELSE "deleted"

\* logActivity rejects before it has stored anything: one of its two lookups
\* or the save / storeActivity call fails (the database or Redis cannot be
\* reached). The handler's catch block answers 500.
LogActivityFails ==
  /\ hreq.pc = "log" /\ hreq.op \in {"createProject", "deleteProject"}
  /\ hreq' = [hreq EXCEPT !.pc = "done", !.status = 500, !.logged = "failed"]
  /\ UNCHANGED <<dbVars, svcVars, pipeVars>>

\* logActivity has stored the activity and broadcastActivity throws: the call
\* is not inside a try block, so logActivity rejects and the handler's catch
\* block answers 500.
BroadcastActivityFails ==
  /\ hreq.pc = "log" /\ hreq.op \in {"createProject", "deleteProject"}
  /\ Len(recorded) < MaxRecorded
  /\ SaveActivity(NewActivity(HOrg, HActor, "NOTIFY", HAction, "project", hreq.projectId))
  /\ hreq' = [hreq EXCEPT !.pc = "done", !.status = 500, !.logged = "unsent"]
  /\ UNCHANGED <<orgMemberships, projectMembers, projects, tasks, broadcasts,
                 now, calls, parked, build, wsVars, organizations, pipeVars>>

NextAnnounce ==
  \/ AnnounceArrive
  \/ HBind
  \/ CreateProjectReadActor
  \/ CreateProjectCheckSlug
  \/ CreateProjectInsert
  \/ CreateProjectAddCreator
  \/ CreateProjectLog
  \/ DeleteProjectReadActor
  \/ DeleteProjectCheckExists
  \/ DeleteProjectLog
  \/ DeleteProjectDelete
  \/ LogActivityFails
  \/ BroadcastActivityFails
  \/ HFinish

SpecAnnounce == InitAct /\ [][NextAnnounce]_vars

\* The activities that are in a live cache list or have been broadcast.
Announced ==
  {broadcasts[i].activity : i \in 1..Len(broadcasts)}
    \cup UNION {{redis[k][i] : i \in 1..Len(redis[k])} : k \in RoomKeys}

\* C21: write-then-announce. An activity is in the live cache or has been
\* broadcast only once the write it describes is committed: a 'deleted
\* project' activity is announced only for a project whose row is gone, a
\* 'created project' activity only for a project id that was inserted.
C21_AnnouncedOnlyAfterWrite ==
  \A a \in Announced :
    /\ a.message = "deleted" => projects[Bigint(a.objectId)] = NoProject
    /\ a.message = "created" => Bigint(a.objectId) <= seqs.projects

\* C22: when activity recording fails during a mutating request, the request
\* reports failure and none of its earlier writes persists: the tables are as
\* they were when the request arrived.
C22_RecordingFailureAbortsAll ==
  (hreq.pc = "done" /\ hreq.logged = "failed") =>
    /\ hreq.status >= 400
    /\ projects = hreq.before.projects
    /\ projectMembers = hreq.before.pm

\* C23: a failure while broadcasting never fails the originating request:
\* with the activity recorded, the handler answers success.
C23_BroadcastFailureIsSwallowed ==
  (hreq.pc = "done" /\ hreq.logged = "unsent") => hreq.status \in {200, 201}

\* ---- Concurrent logActivity calls ----

\* A logActivity call is suspended at its awaits: the two lookups, then the
\* save (one class) or the Redis commands of storeActivity (the other). The
\* broadcast follows the last await in the same turn of the event loop.
RedisCommands == {"lLen", "rPop", "lPush", "expire"}

\* Caller c waits for the reply to a Redis command. The service has one
\* client, hence one connection: replies come in the order the commands were
\* sent, and behind says that the other caller's command was sent first.
Pending(c) == calls[c].pc \in RedisCommands

InFlight == Cardinality({c \in Callers : calls[c].pc # "idle"})

\* logActivity(organizationId, actorId, kind, message, objectType, objectId)
\* is called by a handler of organization 1.
LogCall(c) ==
  /\ calls[c].pc = "idle"
  /\ Len(recorded) + InFlight < MaxCalls
  /\ \E message \in {"created", "deleted"} :
       calls' = [calls EXCEPT ![c] =
                   [pc |-> "lookup", op |-> "log", roomKey |-> Room,
                    message |-> message, activity |-> [id |-> ""], behind |-> FALSE]]
  /\ UNCHANGED <<redis, now, broadcasts, recorded, parked, build, wsVars, organizations, dbVars, pipeVars, hreq>>

\* Promise.all of the two lookups resolves. The one class creates the row to
\* save, the other builds the activity with id = Date.now().toString() and
\* calls storeActivity, which sends lLen.
LogLookup(c) ==
  LET activity == NewActivity(1, 1, "NOTIFY", calls[c].message, "project", "1") IN
  /\ calls[c].pc = "lookup"
  /\ calls' = [calls EXCEPT
                 ![c].pc = IF build = "database" THEN "save" ELSE "lLen",
                 ![c].activity = IF build = "database" THEN @ ELSE activity,
                 ![c].behind = build = "cache" /\ \E d \in Callers \ {c} : Pending(d)]
  /\ now' \in {now, now + 1}
  /\ UNCHANGED <<redis, broadcasts, recorded, parked, build, wsVars, organizations, dbVars, pipeVars, hreq>>

\* activityRepository.save(activity): the INSERT of the row commits on the
\* pool connection the save runs on.
LogSave(c) ==
  LET saved == NewActivity(1, 1, "NOTIFY", calls[c].message, "project", "1") IN
  /\ calls[c].pc = "save"
  /\ SaveActivity(saved)
  /\ calls' = [calls EXCEPT ![c].pc = "saved", ![c].activity = saved]
  /\ UNCHANGED <<orgMemberships, projectMembers, projects, tasks, now, broadcasts,
                 parked, build, wsVars, organizations, pipeVars, hreq>>

\* webSocketService.broadcastActivity(roomKey, activity), then return.
Broadcast(c) ==
  broadcasts' = Append(broadcasts, [roomKey |-> calls[c].roomKey,
                                    activity |-> calls[c].activity])

\* The save's reply reaches the server: logActivity resumes and broadcasts.
\* Two saves run on two connections of the pool, so their replies are not
\* ordered.
LogSaved(c) ==
  /\ calls[c].pc = "saved"
  /\ Broadcast(c)
  /\ calls' = [calls EXCEPT ![c].pc = "returned"]
  /\ UNCHANGED <<redis, now, recorded, parked, build, wsVars, organizations, dbVars, pipeVars, hreq>>

\* The reply to the Redis command of caller c arrives: storeActivity goes on
\* to its next command, or returns after expire and logActivity broadcasts.
LogRedis(c) ==
  LET k == calls[c].roomKey
      pc == calls[c].pc
      next == CASE pc = "lLen" -> IF AtCapacity(Len(redis[k])) THEN "rPop" ELSE "lPush"
                [] pc = "rPop" -> "lPush"
                [] pc = "lPush" -> "expire"
                [] OTHER -> "returned"
  IN
  /\ Pending(c) /\ calls[c].op = "log" /\ ~calls[c].behind
  /\ redis' = CASE pc = "rPop" ->
                     [redis EXCEPT ![k] = IF @ = <<>> THEN @ ELSE SubSeq(@, 1, Len(@) - 1)]
                [] pc = "lPush" -> [redis EXCEPT ![k] = <<calls[c].activity>> \o @]
                [] OTHER -> redis
  /\ recorded' = IF pc = "lPush" THEN Append(recorded, calls[c].activity) ELSE recorded
  /\ IF pc = "expire" THEN Broadcast(c) ELSE UNCHANGED broadcasts
  /\ calls' = [d \in Callers |->
                 IF d = c
                 THEN [calls[c] EXCEPT !.pc = next,
                                       !.behind = next \in RedisCommands
                                                  /\ \E e \in Callers \ {c} : Pending(e)]
                 ELSE IF Pending(d) THEN [calls[d] EXCEPT !.behind = FALSE]
                 ELSE calls[d]]
  /\ UNCHANGED <<now, parked, build, wsVars, organizations, dbVars, pipeVars, hreq>>

NextLogs ==
  \/ \E c \in Callers : LogCall(c)
  \/ \E c \in Callers : LogLookup(c)
  \/ \E c \in Callers : LogSave(c)
  \/ \E c \in Callers : LogSaved(c)
  \/ \E c \in Callers : LogRedis(c)
  \/ \E c \in Callers : Return(c)

SpecLogs == InitAct /\ [][NextLogs]_vars

\* The broadcasts reproduce the recorded activities one by one.
BroadcastInRecordedOrder ==
  /\ Len(broadcasts) <= Len(recorded)
  /\ \A i \in 1..Len(broadcasts) : broadcasts[i].activity = recorded[i]

\* The same for the build that stores activities in Redis.
CacheBroadcastInRecordedOrder == build = "cache" => BroadcastInRecordedOrder

\* C24: for any interleaving of concurrent logActivity calls of one
\* organization, broadcastActivity is invoked for its room in the order in
\* which the activities were recorded.
C24_BroadcastOrderIsRecordedOrder ==
  \A i \in 1..Len(broadcasts) :
    /\ i <= Len(recorded)
    /\ broadcasts[i].roomKey = Room
    /\ broadcasts[i].activity = recorded[i]

\* ---- The order of the history after deletes ----

\* deleteActivity called when no other call is in flight, for an id that is
\* in the list or for one that is not.
SequentialDelete ==
  /\ AllIdle
  /\ now <= MaxStores
  /\ Len(redis[Room]) <= MaxRewritten
  /\ \E c \in Callers, activityId \in 0..2 : DeleteCall(c, activityId)

NextDeletes ==
  \/ SequentialStore
  \/ SequentialDelete
  \/ \E c \in Callers : StoreLLen(c)
  \/ \E c \in Callers : StoreRPop(c)
  \/ \E c \in Callers : StoreLPush(c)
  \/ \E c \in Callers : Expire(c)
  \/ \E c \in Callers : Return(c)
  \/ \E c \in Callers : DeleteLRange(c)
  \/ \E c \in Callers : DeleteDel(c)
  \/ \E c \in Callers : DeleteLPush(c)

SpecDeletes == InitStore /\ [][NextDeletes]_vars

\* Newest first: an activity's id is the clock value of the call that
\* stored it, which is when it was created.
NewestFirst(list) ==
  \A i, j \in 1..Len(list) : i < j => list[i].id >= list[j].id

\* C25: after any sequence of storeActivity and deleteActivity calls, every
\* page of the history getActivities returns is in createdAt-descending
\* order.
C25_HistoryNewestFirst ==
  AllIdle =>
    \A page \in 1..2, limit \in 1..3 :
      NewestFirst(GetActivities(Room, page, limit, ""))

\* ---- Pagination of the history ----

MaxListed == 3   \* entries of the list the pages are cut from

MaxPage == 3     \* largest page and limit a request asks for

\* Lists of n activities: ids n down to 1, head first, of either kind.
Listed(n) ==
  {[i \in 1..n |-> [id |-> IdString(n + 1 - i), kind |-> kinds[i]]] :
     kinds \in [1..n -> {"NOTIFY", "SHOW"}]}

\* The room's list is any list of up to MaxListed activities.
InitPages ==
  /\ InitDb
  /\ \E n \in 0..MaxListed : \E list \in Listed(n) :
       redis = [k \in RoomKeys |-> IF k = Room THEN list ELSE <<>>]
  /\ now = 1
  /\ broadcasts = <<>>
  /\ recorded = <<>>
  /\ calls = [c \in Callers |-> IdleCall]
  /\ parked = IdleHReq
  /\ build = "cache"
  /\ InitWs
  /\ organizations = SeedOrganizations
  /\ pool = [c \in Conns |-> FreshConn]
  /\ req = [r \in Reqs |-> IdleReq]
  /\ queryLog = {}
  /\ hreq = IdleHReq

\* GET /activities?page=&limit=&kind=&roomKey= by a member of organization 1.
PageArrive ==
  /\ hreq.pc = "idle"
  /\ \E page \in 1..MaxPage, limit \in 1..MaxPage, kind \in {"", "SHOW", "BOGUS"} :
       hreq' = [IdleHReq EXCEPT !.pc = "bind", !.op = "getActivities", !.actor = "1",
                                !.organizationId = "1", !.roomKey = Room,
                                !.page = IdString(page), !.limit = IdString(limit),
                                !.kind = kind]
  /\ UNCHANGED <<dbVars, svcVars, pipeVars>>

NextPages ==
  \/ PageArrive
  \/ HBind
  \/ GetActivitiesHandler
  \/ HFinish

SpecPages == InitPages /\ [][NextPages]_vars

\* The entries of the room's list that a request for this kind is about: a
\* kind that is not an ActivityKind selects them all.
Matching(kind) ==
  LET ofKind(a) == a.kind = kind IN
  IF kind \in ActivityKind THEN SelectSeq(redis[Room], ofKind) ELSE redis[Room]

RECURSIVE PagesUpTo(_, _, _)
\* Pages 1..n of the history, one after another.
PagesUpTo(n, limit, kind) ==
  IF n = 0 THEN <<>>
  ELSE PagesUpTo(n - 1, limit, kind) \o GetActivities(Room, n, limit, kind)

\* C26: pagination. For page p and limit L over an unchanged list, total is
\* the number of entries matching the kind filter, pages is ceil(total / L),
\* page p holds the entries at positions (p-1)*L .. p*L-1 of the filtered
\* list, and pages 1..pages one after another are the filtered list; a kind
\* that is not an ActivityKind filters nothing.
C26_PagesPartitionTheHistory ==
  (hreq.pc = "done" /\ hreq.op = "getActivities" /\ hreq.status = 200) =>
    LET p == Bigint(hreq.page)
        L == Bigint(hreq.limit)
        list == Matching(hreq.kind)
        first == (p - 1) * L + 1
        last == IF p * L < Len(list) THEN p * L ELSE Len(list)
    IN
    /\ hreq.total = Len(list)
    /\ hreq.pages * L >= hreq.total /\ (hreq.pages - 1) * L < hreq.total
    /\ hreq.activities = [i \in 1..(IF last < first THEN 0 ELSE last - first + 1) |->
                            list[first + i - 1]]
    /\ PagesUpTo(hreq.pages, L, hreq.kind) = list

\* A second page that is not empty, cut from a filtered list.
C26_Witness ==
  /\ hreq.pc = "done" /\ hreq.op = "getActivities" /\ hreq.status = 200
  /\ hreq.page = "2" /\ hreq.limit = "1" /\ hreq.kind = "SHOW"
  /\ Len(hreq.activities) = 1 /\ hreq.pages = 2
  /\ Len(redis[Room]) = 3

\* ---- WebSocketService: rooms, subscribers and broadcasts ----

MaxBroadcasts == 2   \* broadcastActivity calls in a run of SpecSockets

\* A client connects: io.on('connection') registers the socket's handlers.
Connect(s) ==
  /\ sockets[s].state = "new"
  /\ sockets' = [sockets EXCEPT ![s].state = "connected"]
  /\ UNCHANGED <<connectedUsers, dbVars, redis, now, broadcasts, recorded, calls,
                 parked, build, organizations, pipeVars, hreq>>

\* Set.add on the room's set, which is created when the map has none.
AddSocket(users, roomKey, s) ==
  [k \in DOMAIN users \cup {roomKey} |->
     IF k = roomKey THEN (IF k \in DOMAIN users THEN users[k] ELSE {}) \cup {s}
     ELSE users[k]]

\* Set.delete without the removal of a room left empty.
RemoveFromSets(users, rooms, s) ==
  [k \in DOMAIN users |-> IF k \in rooms THEN users[k] \ {s} ELSE users[k]]

\* Set.delete on the sets of the given rooms; a room whose set becomes
\* empty is deleted from the map.
RemoveSocket(users, rooms, s) ==
  LET kept == {k \in DOMAIN users : k \notin rooms \/ users[k] \ {s} # {}} IN
  [k \in kept |-> IF k \in rooms THEN users[k] \ {s} ELSE users[k]]

\* socket.on('join-organization', roomKey): socket.join adds the room to the
\* rooms of the socket; the rooms it has joined before stay joined.
JoinOrganization(s, roomKey) ==
  /\ sockets[s].state = "connected"
  /\ sockets' = [sockets EXCEPT ![s].rooms = @ \cup {roomKey}]
  /\ connectedUsers' = AddSocket(connectedUsers, roomKey, s)
  /\ UNCHANGED <<dbVars, redis, now, broadcasts, recorded, calls, parked, build, organizations,
                 pipeVars, hreq>>

\* socket.on('leave-organization', roomKey)
LeaveOrganization(s, roomKey) ==
  /\ sockets[s].state = "connected"
  /\ sockets' = [sockets EXCEPT ![s].rooms = @ \ {roomKey}]
  /\ connectedUsers' = RemoveSocket(connectedUsers, {roomKey}, s)
  /\ UNCHANGED <<dbVars, redis, now, broadcasts, recorded, calls, parked, build, organizations,
                 pipeVars, hreq>>

\* socket.on('disconnect'): socket.io has taken the socket out of its rooms;
\* the handler deletes its id from every set of connectedUsers.
Disconnect(s) ==
  /\ sockets[s].state = "connected"
  /\ sockets' = [sockets EXCEPT ![s].state = "disconnected", ![s].rooms = {}]
  /\ connectedUsers' = RemoveSocket(connectedUsers, DOMAIN connectedUsers, s)
  /\ UNCHANGED <<dbVars, redis, now, broadcasts, recorded, calls, parked, build, organizations,
                 pipeVars, hreq>>

\* Sending to every socket in the server, whatever its rooms.
Everyone(roomKey) == {s \in Sockets : sockets[s].state = "connected"}

\* io.to(roomKey): the connected sockets that are in the room now.
Recipients(roomKey) ==
  {s \in Sockets : sockets[s].state = "connected" /\ roomKey \in sockets[s].rooms}

\* broadcastActivity(roomKey, activity): io.to(roomKey).emit('new-activity').
BroadcastActivity(roomKey) ==
  LET event == [roomKey |-> roomKey,
                activity |-> [id |-> IdString(Len(broadcasts) + 1)]]
  IN
  /\ Len(broadcasts) < MaxBroadcasts
  /\ broadcasts' = Append(broadcasts, event)
  /\ sockets' = [s \in Sockets |->
                   IF s \in Recipients(roomKey)
                   THEN [sockets[s] EXCEPT !.received = Append(@, event)]
                   ELSE sockets[s]]
  /\ UNCHANGED <<connectedUsers, dbVars, redis, now, recorded, calls, parked, build, organizations,
                 pipeVars, hreq>>

NextSockets ==
  \/ \E s \in Sockets : Connect(s)
  \/ \E s \in Sockets, roomKey \in RoomKeys : JoinOrganization(s, roomKey)
  \/ \E s \in Sockets, roomKey \in RoomKeys : LeaveOrganization(s, roomKey)
  \/ \E s \in Sockets : Disconnect(s)
  \/ \E roomKey \in RoomKeys : BroadcastActivity(roomKey)

SpecSockets == Init /\ [][NextSockets]_vars

\* The rooms in whose subscriber set the socket is.
SubscribedRooms(s) == {k \in DOMAIN connectedUsers : s \in connectedUsers[k]}

\* C27: a disconnected socket's id is in no room's subscriber set; no room
\* with an empty subscriber set stays in connectedUsers; the subscriber sets
\* change only in join-organization, leave-organization and disconnect.
C27_SubscribersFollowSocketEvents ==
  /\ [](\A s \in Sockets : sockets[s].state = "disconnected" => SubscribedRooms(s) = {})
  /\ [](\A k \in DOMAIN connectedUsers : connectedUsers[k] # {})
  /\ [][connectedUsers' # connectedUsers =>
          \E s \in Sockets :
            \/ Disconnect(s)
            \/ \E roomKey \in RoomKeys :
                 JoinOrganization(s, roomKey) \/ LeaveOrganization(s, roomKey)]_vars

\* A socket that subscribed to both rooms has disconnected while the other
\* socket is still subscribed to one of them.
C27_Witness ==
  /\ sockets["s1"].state = "disconnected"
  /\ Len(sockets["s1"].received) = 2
  /\ sockets["s1"].received[1].roomKey # sockets["s1"].received[2].roomKey
  /\ DOMAIN connectedUsers = {"org1"}
  /\ connectedUsers["org1"] = {"s2"}

\* C28: a connection is subscribed to at most one room at a time: joining
\* roomKey' while subscribed to roomKey leaves it subscribed to roomKey' only.
C28_AtMostOneRoom ==
  \A s \in Sockets :
    /\ Cardinality(sockets[s].rooms) <= 1
    /\ Cardinality(SubscribedRooms(s)) <= 1

\* C29: a broadcast to roomKey is delivered at most once to each connection
\* subscribed to roomKey when it is made, and to no other: a connection
\* receives an event only in the step that broadcasts it, only while
\* connected and in the event's room (however often it joined), and never an
\* event broadcast before it joined or after it has disconnected.
C29_DeliveredOnceToSubscribers ==
  /\ [](\A s \in Sockets :
          \A i, j \in 1..Len(sockets[s].received) :
            i # j => sockets[s].received[i] # sockets[s].received[j])
  /\ [][\A s \in Sockets :
          sockets'[s].received # sockets[s].received =>
            /\ Len(broadcasts') = Len(broadcasts) + 1
            /\ sockets'[s].received =
                 Append(sockets[s].received, broadcasts'[Len(broadcasts')])
            /\ sockets[s].state = "connected"
            /\ broadcasts'[Len(broadcasts')].roomKey \in sockets[s].rooms
            /\ s \in connectedUsers[broadcasts'[Len(broadcasts')].roomKey]]_vars
  /\ [][Len(broadcasts') = Len(broadcasts) + 1 =>
          \A s \in Sockets :
            (sockets[s].state = "connected"
             /\ broadcasts'[Len(broadcasts')].roomKey \in sockets[s].rooms)
              => sockets'[s].received # sockets[s].received]_vars

\* One socket received the first broadcast, left, and missed the second,
\* which the other socket, joined in between, received.
C29_Witness ==
  /\ Len(broadcasts) = 2
  /\ broadcasts[1].roomKey = "org1" /\ broadcasts[2].roomKey = "org1"
  /\ sockets["s1"].received = <<broadcasts[1]>>
  /\ sockets["s2"].received = <<broadcasts[2]>>
  /\ sockets["s1"].state = "disconnected"

\* ---- Ids of another organization and ids that do not exist ----

\* GET /:projectId: hasProjectAccess(req, projectId), else 403.
GetProjectCheckAccess ==
  /\ hreq.pc = "handler" /\ hreq.op = "getProject"
  /\ IF HasProjectAccess(hreq.actor, hreq.projectId, hreq.organizationId)
     THEN Goto("read")
     ELSE Respond(403)
  /\ UNCHANGED <<dbVars, svcVars, pipeVars>>

\* SELECT ... FROM projects p ... WHERE p.id = $2 AND p.organization_id = $3
GetProjectRead ==
  LET p == Bigint(hreq.projectId) IN
  /\ hreq.pc = "read" /\ hreq.op = "getProject"
  /\ IF p \in Projects /\ ProjectOrg(p) = HOrg THEN Respond(200) ELSE Respond(404)
  /\ UNCHANGED <<dbVars, svcVars, pipeVars>>

\* Each organization has a project with a task: task 1 in project 1 of
\* organization 1, task 2 in project 2 of organization 2.
InitTenants ==
  /\ orgMemberships = SeedMemberships
  /\ projectMembers = SeedProjectMembers
  /\ projects = SeedProjects
  /\ tasks = [t \in TaskIds |->
                IF t \in {1, 2}
                THEN [organizationId |-> t, projectId |-> t, assigneeId |-> 0,
                      status |-> "TODO", title |-> "t", createdBy |-> 3]
                ELSE NoTask]
  /\ activities = <<>>
  /\ seqs = [projects |-> 2, tasks |-> 2, activities |-> 0]
  /\ InitSvc
  /\ pool = [c \in Conns |-> FreshConn]
  /\ req = [r \in Reqs |-> IdleReq]
  /\ queryLog = {}
  /\ hreq = IdleHReq

TenantOps == {"getProject", "updateProject", "updateTask", "updateProjectMember"}

\* User 3, USER of organization 1 and OWNER of organization 2, asks either
\* organization for a project or task id: one of that organization, one of
\* the other, or one that no row has.
TenantArrive ==
  /\ hreq.pc = "idle"
  /\ \E op \in TenantOps, o \in {"1", "2"}, p \in {"1", "2", "3"}, t \in {"1", "2", "3"} :
       /\ (op # "updateTask") => t = "1"
       /\ (op = "updateTask") => Len(recorded) < MaxLogged
       /\ hreq' = [IdleHReq EXCEPT
                     !.pc = "bind", !.op = op, !.actor = "3", !.organizationId = o,
                     !.projectId = p, !.taskId = t, !.userId = "3",
                     !.role = IF op = "updateProjectMember" THEN "VIEWER" ELSE "",
                     !.name = IF op = "updateProject" THEN "n" ELSE "",
                     !.taskStatus = IF op = "updateTask" THEN "DONE" ELSE Undefined,
                     !.title = Undefined, !.assigneeId = Undefined,
                     !.before = Snapshot]
  /\ UNCHANGED <<dbVars, svcVars, pipeVars>>

NextTenants ==
  \/ TenantArrive
  \/ HBind
  \/ GetProjectCheckAccess
  \/ GetProjectRead
  \/ UpdateProjectReadAccess
  \/ UpdateProjectWrite
  \/ UpdateTaskReadTask
  \/ UpdateTaskReadAccess
  \/ UpdateTaskWrite
  \/ UpdateTaskLog
  \/ UpdateProjectMemberReadActor
  \/ UpdateProjectMemberWrite
  \/ Switch
  \/ HFinish

SpecTenants == InitTenants /\ [][NextTenants]_vars

\* The id a request names is not one of the organization it is bound to: no
\* row has it, or the row belongs to another organization.
NotOfTenant(r) ==
  LET o == Bigint(r.organizationId)
      p == Bigint(r.projectId)
      t == Bigint(r.taskId)
  IN IF r.op = "updateTask"
     THEN ~(/\ t \in TaskIds /\ tasks[t].organizationId # 0
            /\ tasks[t].projectId = p /\ ProjectOrg(p) = o)
     ELSE ProjectOrg(p) # o

\* Two requests that differ in nothing but the ids they name.
SameButIds(a, b) ==
  /\ a.op = b.op /\ a.actor = b.actor /\ a.organizationId = b.organizationId
  /\ a.userId = b.userId /\ a.role = b.role /\ a.name = b.name /\ a.slug = b.slug
  /\ a.taskStatus = b.taskStatus /\ a.title = b.title /\ a.assigneeId = b.assigneeId

SlugArrive ==
  /\ hreq.pc = "idle"
  /\ Len(recorded) < MaxRecorded
  /\ seqs.projects < MaxProjects
  /\ \E a \in {"1", "2"}, slug \in {"p1", "s"} :
       hreq' = [IdleHReq EXCEPT !.pc = "bind", !.op = "createProject", !.actor = a,
                                !.organizationId = "1", !.name = "n", !.slug = slug,
                                !.before = Snapshot]
  /\ UNCHANGED <<dbVars, svcVars, pipeVars>>

NextSlugs ==
  \/ SlugArrive
  \/ HBind
  \/ CreateProjectReadActor
  \/ CreateProjectCheckSlug
  \/ CreateProjectInsert
  \/ CreateProjectAddCreator
  \/ CreateProjectLog
  \/ Switch
  \/ HFinish

\* Organization 1 has its project 1; organization 2 has none yet.
InitSlugs ==
  /\ orgMemberships = SeedMemberships
  /\ projectMembers = [k \in Projects \X Users |->
                         IF k[1] = 1 THEN SeedProjectMembers[k] ELSE "none"]
  /\ projects = [p \in Projects |-> IF p = 1 THEN SeedProjects[p] ELSE NoProject]
  /\ tasks = [t \in TaskIds |-> NoTask]
  /\ activities = <<>>
  /\ seqs = [projects |-> 1, tasks |-> 0, activities |-> 0]
  /\ InitSvc
  /\ pool = [c \in Conns |-> FreshConn]
  /\ req = [r \in Reqs |-> IdleReq]
  /\ queryLog = {}
  /\ hreq = IdleHReq

SpecSlugs == InitSlugs /\ [][NextSlugs]_vars

\* Another project of the request's organization has the slug it asks for.
SlugOfAnother(r) ==
  \E p \in Projects :
    /\ ProjectOrg(p) = Bigint(r.organizationId)
    /\ projects[p].slug = r.slug
    /\ IdString(p) # r.projectId

\* No two projects of one organization share a slug.
SlugsUnique ==
  \A p, q \in Projects :
    (p # q /\ ProjectOrg(p) # 0 /\ ProjectOrg(p) = ProjectOrg(q)) =>
      projects[p].slug # projects[q].slug

\* C31: a create request whose slug another project of the organization has
\* is answered 409 Conflict and creates nothing, also when that project is
\* inserted by a concurrent request between this request's check and its
\* insert; no two projects of an organization share a slug.
C31_TakenKeyIsConflict ==
  /\ SlugsUnique
  /\ \A r \in {hreq, parked} :
       (r.pc = "done" /\ r.op = "createProject" /\ SlugOfAnother(r)) =>
         /\ r.status = 409
         /\ r.projectId = ""

\* ---- Leased connections and the end of a request ----

\* The client goes away (abort, timeout) while the request holds its
\* connection: the response never finishes, so 'finish', the only event the
\* release is registered on, is not emitted. Status 0: no response.
Abort(r) ==
  /\ req[r].queryRunner # NoConn
  /\ req[r].pc \notin {"idle", "done", "loginQuery"}
  /\ req' = [req EXCEPT ![r].pc = "done", ![r].status = 0]
  /\ UNCHANGED <<pool, queryLog, dbVars, svcVars, hreq>>

\* POST /login with valid credentials: createQueryRunner().connect().
LoginConnect(r) ==
  /\ req[r].pc = "idle"
  /\ \E u \in {"1", "3"}, c \in FreeConns :
       /\ pool' = [pool EXCEPT ![c].leased = TRUE]
       /\ req' = [req EXCEPT ![r] = [IdleReq EXCEPT !.pc = "loginQuery", !.user = u,
                                                    !.route = "login", !.queryRunner = c]]
  /\ UNCHANGED <<queryLog, dbVars, svcVars, hreq>>

\* SELECT set_config('app.user_id', $1, true) outside a transaction, then
\* queryRunner.release() and the response. When the query throws, control
\* goes to the catch block, which answers 500 and releases nothing.
LoginQuery(r) ==
  LET c == req[r].queryRunner IN
  /\ req[r].pc = "loginQuery"
  /\ \/ /\ pool' = [pool EXCEPT ![c].leased = FALSE]
        /\ req' = [req EXCEPT ![r].pc = "done", ![r].status = 200]
     \/ /\ req' = [req EXCEPT ![r].pc = "done", ![r].status = 500, ![r].threw = TRUE]
        /\ UNCHANGED pool
  /\ UNCHANGED <<queryLog, dbVars, svcVars, hreq>>

NextLeases ==
  \/ Next
  \/ \E r \in Reqs : Abort(r)
  \/ \E r \in Reqs : LoginConnect(r)
  \/ \E r \in Reqs : LoginQuery(r)

SpecLeases == Init /\ [][NextLeases]_vars

\* C32: a connection is leased only to a request that has not ended: when a
\* request has ended, by success, by error or by the client going away, the
\* connection it acquired is back in the pool.
C32_NoLeaseOutlivesRequest ==
  \A c \in Conns :
    pool[c].leased =>
      \E r \in Reqs : req[r].queryRunner = c /\ req[r].pc \notin {"idle", "done"}

\* ---- POST / (create organization) ----

\* The users table: the ids that have a row. A token stays valid when its
\* user's row is gone; jwtMiddleware verifies the signature only.
UserExists(u) == u \in Users

\* SELECT id FROM organizations WHERE subdomain = $1
SubdomainTaken(subdomain) ==
  \E o \in OrgIds : organizations[o].subdomain = subdomain

\* The id the organizations sequence hands out next.
FreeOrgIds == {o \in OrgIds : \A q \in OrgIds : q >= o => organizations[q] = NoOrganization}

\* A create-organization request by user 1 or by the holder of a token
\* whose user (4) has no users row.
CreateOrgArrive ==
  /\ hreq.pc = "idle"
  /\ \E a \in {"1", "4"}, name \in {"", "n"}, subdomain \in {"org1", "acme"} :
       hreq' = [IdleHReq EXCEPT !.pc = "handler", !.op = "createOrganization",
                                !.actor = a, !.name = name, !.subdomain = subdomain,
                                !.before = Snapshot]
  /\ UNCHANGED <<dbVars, svcVars, pipeVars>>

\* Body validation, then the subdomain check.
CreateOrganizationCheck ==
  /\ hreq.pc = "handler" /\ hreq.op = "createOrganization"
  /\ IF hreq.name = "" \/ hreq.subdomain = "" THEN Respond(400)
     ELSE IF SubdomainTaken(hreq.subdomain) THEN Respond(409)
     ELSE Goto("insert")
  /\ UNCHANGED <<dbVars, svcVars, pipeVars>>

\* INSERT INTO organizations (name, subdomain) RETURNING id, run on the
\* request's query runner outside any transaction: it commits at once.
\* UNIQUE (subdomain) rejects a second row with the subdomain.
CreateOrganizationInsert ==
  /\ hreq.pc = "insert" /\ hreq.op = "createOrganization"
  /\ IF SubdomainTaken(hreq.subdomain)
     THEN /\ UNCHANGED organizations
          /\ Respond(500)
     ELSE \E o \in FreeOrgIds :
            /\ \A q \in FreeOrgIds : o <= q
            /\ organizations' = [organizations EXCEPT ![o] =
                                   [name |-> hreq.name, subdomain |-> hreq.subdomain]]
            /\ hreq' = [hreq EXCEPT !.organizationId = IdString(o), !.pc = "addOwner"]
  /\ UNCHANGED <<dbVars, redis, now, broadcasts, recorded, calls, parked, build, wsVars,
                 pipeVars>>

\* INSERT INTO org_memberships (organization_id, user_id, role) VALUES ($1,
\* $2, 'OWNER'), a statement of its own: user_id REFERENCES users(id).
CreateOrganizationAddOwner ==
  LET k == <<HOrg, HActor>> IN
  /\ hreq.pc = "addOwner" /\ hreq.op = "createOrganization"
  /\ IF UserExists(HActor)
     THEN /\ orgMemberships' = [j \in DOMAIN orgMemberships \cup {k} |->
                                  IF j = k THEN "OWNER" ELSE orgMemberships[j]]
          /\ Respond(201)
     ELSE /\ UNCHANGED orgMemberships
          /\ Respond(500)
  /\ UNCHANGED <<projectMembers, otherTables, svcVars, pipeVars>>

NextOrganizations ==
  \/ CreateOrgArrive
  \/ CreateOrganizationCheck
  \/ CreateOrganizationInsert
  \/ CreateOrganizationAddOwner
  \/ Switch
  \/ HFinish

SpecOrganizations == InitOrg /\ [][NextOrganizations]_vars

\* C33: creating an organization makes its creator the owner in one step.
\* After a create-organization request, successful or failed, the
\* organization row the request inserted exists iff the creator's OWNER
\* membership of that organization exists.
C33_OrganizationIffOwnerMembership ==
  \A r \in {hreq, parked} :
    (r.pc = "done" /\ r.op = "createOrganization") =>
      /\ r.status = 201 => r.organizationId # ""
      /\ r.organizationId # "" =>
           /\ organizations[Bigint(r.organizationId)] # NoOrganization
           /\ RoleOf(Bigint(r.organizationId), Bigint(r.actor)) = "OWNER"


\* C34: an ADMIN cannot create an OWNER membership by adding a member. After
\* any add-member request by a user who was not OWNER when it arrived, the
\* organization's set of OWNERs is what it was.
C34_AddMemberKeepsOwners ==
  (HDone("addMember") /\ hreq.before.om[<<HOrg, HActor>>] # "OWNER") =>
    Owners(orgMemberships, HOrg) = Owners(hreq.before.om, HOrg)

\* ---- Concurrent role changes, removals and ownership transfers ----

OwnershipOps == {"updateRole", "removeMember", "transfer"}

\* An update-member-role, remove-member or transfer-ownership request of
\* organization 1 by its OWNER or its ADMIN, aimed at one of the two by the
\* canonical id.
OwnershipArrive ==
  /\ hreq.pc = "idle"
  /\ \E op \in OwnershipOps, a \in {"1", "2"}, u \in {"1", "2"},
        ro \in {"", "OWNER", "USER"} :
       /\ (op = "updateRole") <=> (ro # "")
       /\ hreq' = [IdleHReq EXCEPT !.pc = "bind", !.op = op, !.actor = a,
                                   !.organizationId = "1", !.userId = u, !.role = ro]
  /\ UNCHANGED <<dbVars, svcVars, pipeVars>>

NextOwnership ==
  \/ OwnershipArrive
  \/ Switch
  \/ HBind
  \/ UpdateRoleReadActor
  \/ UpdateRoleReadTarget
  \/ UpdateRoleWrite
  \/ RemoveMemberReadActor
  \/ RemoveMemberReadTarget
  \/ RemoveMemberWrite
  \/ TransferReadActor
  \/ TransferReadTarget
  \/ TransferWrite
  \/ HFinish

SpecOwnership == InitOrg /\ [][NextOwnership]_vars

\* C35: under any interleaving of concurrent update-member-role,
\* remove-member and transfer-ownership requests, an organization that has
\* an OWNER never reaches zero OWNERs.
C35_OwnerNeverLost ==
  [][\A o \in Orgs :
       Owners(orgMemberships, o) # {} => Owners(orgMemberships', o) # {}]_vars

\* C36: deleteActivity(roomKey, id) removes exactly the entries with that id
\* and leaves every other entry in the same relative order; when no entry
\* has the id the list is unchanged. Here for calls that run alone: when
\* the call returns, the list is the list of the call's start without the
\* entries of that id.
C36_DeleteKeepsTheOthersInOrder ==
  \A c \in Callers :
    (calls[c].pc = "returned" /\ calls[c].op = "delete") =>
      redis[calls[c].roomKey] = KeepOthers(calls[c].before, calls[c].activityId)

\* C37: any two distinct activities recorded by logActivity have distinct
\* ids, also when they are recorded concurrently or within one tick of the
\* clock.
C37_RecordedIdsDistinct ==
  \A i, j \in 1..Len(recorded) : i # j => recorded[i].id # recorded[j].id

\* ---- Who is in a room ----

\* The user whose client opened the connection. The server keeps no user
\* for a socket: the 'connection' handler reads no token.
SocketUser(s) == IF s = "s1" THEN 1 ELSE 3

\* The organization a room key stands for.
OrgOfRoom(roomKey) == CHOOSE o \in Orgs : RoomKey(o) = roomKey

\* socket.on('filter-activities', data): socket.to(data.roomKey) emits
\* 'activity-filter-changed' to the sockets in the room other than the
\* sender, whether or not the sender is in the room.
FilterActivities(s, roomKey) ==
  LET event == [roomKey |-> roomKey, filteredBy |-> s] IN
  /\ sockets[s].state = "connected"
  /\ \A t \in Sockets : Len(sockets[t].received) < MaxBroadcasts
  /\ sockets' = [t \in Sockets |->
                   IF t \in Recipients(roomKey) \ {s}
                   THEN [sockets[t] EXCEPT !.received = Append(@, event)]
                   ELSE sockets[t]]
  /\ UNCHANGED <<connectedUsers, dbVars, redis, now, broadcasts, recorded, calls, parked,
                 build, organizations, pipeVars, hreq>>

NextRooms ==
  \/ \E s \in Sockets : Connect(s)
  \/ \E s \in Sockets, roomKey \in RoomKeys : JoinOrganization(s, roomKey)
  \/ \E s \in Sockets, roomKey \in RoomKeys : LeaveOrganization(s, roomKey)
  \/ \E s \in Sockets, roomKey \in RoomKeys : FilterActivities(s, roomKey)
  \/ \E s \in Sockets : Disconnect(s)
  \/ \E roomKey \in RoomKeys : BroadcastActivity(roomKey)

SpecRooms == Init /\ [][NextRooms]_vars

\* The user of the connection is a member of the room's organization.
MemberOfRoom(s, roomKey) == RoleOf(OrgOfRoom(roomKey), SocketUser(s)) # "none"

\* C38: a connection receives the events of an organization's room only if
\* it belongs to a member of the organization, and only members' connections
\* cause events in the room: join-organization and filter-activities of a
\* non-member have no effect.
C38_RoomEventsForMembersOnly ==
  \A s \in Sockets :
    /\ \A roomKey \in sockets[s].rooms : MemberOfRoom(s, roomKey)
    /\ \A i \in 1..Len(sockets[s].received) :
         /\ MemberOfRoom(s, sockets[s].received[i].roomKey)
         /\ "filteredBy" \in DOMAIN sockets[s].received[i] =>
              MemberOfRoom(sockets[s].received[i].filteredBy,
                           sockets[s].received[i].roomKey)

\* ---- The row-level policies of the migration ----

\* app.is_org_admin(org_id) for the user of app.user_id
IsOrgAdmin(u, o) == RoleOf(o, u) \in {"OWNER", "ADMIN"}

\* CREATE POLICY projects_write ON projects FOR ALL
\*   USING (app.is_org_admin(organization_id)): the rows of projects the
\* policy lets user u write.
ProjectsWrite(u, p) == p \in Projects /\ IsOrgAdmin(u, ProjectOrg(p))

\* C39: the handlers' authorization and the store's row-level write policy
\* agree. Whenever the project-update handler authorizes a write and answers
\* success, the projects_write policy accepts the write for the caller and
\* the row holds the values sent.
C39_AuthorizedWriteIsAcceptedByPolicy ==
  (hreq.pc = "done" /\ hreq.op = "updateProject" /\ hreq.status = 200) =>
    LET p == Bigint(hreq.projectId) IN
    /\ ProjectsWrite(HActor, p)
    /\ hreq.name # "" => projects[p].name = hreq.name
    /\ hreq.slug # "" => projects[p].slug = hreq.slug
=============================================================================
